---- MODULE Spec2Model ----
(***************************************************************************)
(* Reconciliation subsystem of MyDubList.                                  *)
(*                                                                         *)
(*   Spec      : one MAL adapter run (run_mal of fetch_dubs_from_api.py):  *)
(*               the scan loop over a range of ids, process_anime_mal,     *)
(*               the periodic and final finalize_jsons and the             *)
(*               missing-id cache.                                         *)
(*   SpecMerge : the consensus merge (merge_manual_and_automatic.py).      *)
(*                                                                         *)
(* Files are modelled by their parsed content: a JSON array is a sequence, *)
(* a set read from it is the range of the sequence, and a set written to   *)
(* it is written through sorted().                                         *)
(***************************************************************************)
EXTENDS Integers, Sequences, FiniteSets, TLC

\* ------------------------------------------------------------------ bounds
\* The scan covers the ids start_id .. MaxId.
MaxId == 3
\* Stand-ins for FINALIZE_EVERY_N = 100 and MAX_CONSECUTIVE_404 = 500,
\* scaled so that a checkpoint and an early stop happen inside the range.
FINALIZE_EVERY_N == 2
MAX_CONSECUTIVE_404 == 2

start_id == 1
Ids == start_id .. MaxId
Langs == {"english", "japanese"}

\* ------------------------------------------------------------- JSON files
AbsentFile == [kind |-> "absent", dubbed |-> <<>>]
CorruptFile == [kind |-> "corrupt", dubbed |-> <<>>]
JsonFile(arr) == [kind |-> "json", dubbed |-> arr]

Range(s) == {s[i] : i \in 1 .. Len(s)}

Min(S) == CHOOSE x \in S : \A y \in S : x <= y

\* Python sorted() of a set of integers: the ascending list of its elements.
RECURSIVE sorted(_)
sorted(S) == IF S = {} THEN <<>> ELSE <<Min(S)>> \o sorted(S \ {Min(S)})

IsAscending(s) == \A i \in 1 .. Len(s) - 1 : s[i] < s[i + 1]

\* set(int(x) for x in existing_data.get("dubbed", [])); a missing or
\* unparsable file reads as the empty set.
existing_ids(file) == IF file.kind = "json" THEN Range(file.dubbed) ELSE {}

\* ------------------------------------------------- language normalization
sanitize_lang(lang) ==
    CASE lang = "" -> ""
      [] lang = "English" -> "english"
      [] lang = "Japanese" -> "japanese"
      [] lang = "Japanese (dub)" -> "japanese"
      [] OTHER -> lang

\* --------------------------------------------------------------- variables
VARIABLES
    pc,                    \* "loop" while run_mal iterates, "done" after its finally block
    mal_files,             \* dubs/sources/automatic_mal/dubbed_<lang>.json
    cache_file,            \* cache/missing_mal_ids.json: [kind, dubbed] with the "missing" array
    json_data,             \* global json_data: lang -> ids found this run
    checked_ok_ids,        \* run_mal's checked_ok_ids
    missing_mal_ids,       \* global missing_mal_ids
    largest_known_mal_id,  \* global largest_known_mal_id
    consecutive_404,       \* run_mal's consecutive_404
    idx,                   \* number of candidate ids of the range handled so far
    last_mal_404,          \* global last_mal_404
    va_cache,              \* lru_cache of get_anime_roles_for_va_cached: person -> result
    files0,                \* history: mal_files at the start of the run
    verdict,               \* history: this run's verdict per id
    fin_log,               \* history: the finalize_jsons calls made by the last step
    flushed,               \* history: value of idx at the last finalize_jsons
    other_files,           \* dubs/sources/automatic_<provider>/dubbed_<lang>.json, provider # mal
    manual_files,          \* dubs/sources/manual/dubbed_<lang>.json
    outputs,               \* per language: dubs/counts/dubbed_<lang>.json (counts) and
                           \* dubs/confidence/<level>/dubbed_<lang>.json (confidence[level])
    prev_outputs,          \* history: the output files before the last merge
    system,                \* the external system whose harness is exercised
    since_call,            \* now - <system>_last_call, in seconds, capped at TimeCap
    since_request,         \* history: seconds since the last outbound request to the
                           \* system, capped at TimeCap
    looked_up,             \* history: the ids for which a harness call (mal_get,
                           \* jikan_get) was issued
    va_log,                \* history: per person, what the last step's lookup of its
                           \* roles did: "none", "memo" (answered from the lru_cache),
                           \* or the outcome of the harness call: "data", "miss",
                           \* "transient"
    existing_map,          \* run_kitsu's existing_map: the MAL ids with a known Kitsu id
    langs_status,          \* history: per id, the HTTP status Kitsu gave to the lookup
                           \* of its languages (0: no such lookup)
    cache0,                \* history: cache/missing_mal_ids.json at the start of the run
    chain,                 \* history: the candidate id the last step handled and how
                           \* its lookups ended: primary (get_characters) and va
                           \* (get_voice_actors), "none" for a lookup not issued
    last_call,             \* history: what the last harness call did and returned
    all_shows,             \* crunchyroll_scraper main: the content ids listed by phase 1
    tasks,                 \* per show, where its fetch_details_concurrently task is:
                           \* "waiting" (at "async with semaphore"), "fetching"
                           \* (session.get awaited), "returned"
    semaphore,             \* the value of the asyncio.Semaphore
    results,               \* per show, what its task returned
    crunchyroll_data,      \* crunchyroll_data.json
    detail_responses,      \* history: per show, what the detail endpoint did ("none"
                           \* while the fetch has not completed)
    anisearch_source,      \* run_anisearch: the file named by --source-file
    anisearch_mapping      \* mappings/mappings_anisearch.jsonl: MAL id -> aniSearch id

scanVars == <<pc, mal_files, cache_file, json_data, checked_ok_ids, missing_mal_ids,
              largest_known_mal_id, consecutive_404, idx, last_mal_404, va_cache,
              files0, verdict, fin_log, flushed>>

mergeVars == <<other_files, manual_files, outputs, prev_outputs>>

harnessVars == <<system, since_call, since_request, last_call>>

callVars == <<looked_up, va_log, cache0, chain>>

kitsuVars == <<existing_map, langs_status>>

fanoutVars == <<all_shows, tasks, semaphore, results, crunchyroll_data, detail_responses>>

anisearchVars == <<anisearch_source, anisearch_mapping>>

vars == <<scanVars, mergeVars, harnessVars, callVars, kitsuVars, fanoutVars, anisearchVars>>

\* ---------------------------------------------------------- call harnesses
\* mal_get, jikan_get, ann_get and kitsu_get.  Time is counted in whole
\* seconds; a request that is answered within the second takes no time.
CALL_RETRIES == 4
RETRY_DELAYS == <<10, 60, 120>>
MAL_MIN_INTERVAL == 2
JIKAN_MIN_INTERVAL == 1
ANN_MIN_INTERVAL == 1
KITSU_MIN_INTERVAL == 1

Systems == {"mal", "jikan", "ann", "kitsu"}

MIN_INTERVAL(sys) ==
    CASE sys = "mal" -> MAL_MIN_INTERVAL
      [] sys = "jikan" -> JIKAN_MIN_INTERVAL
      [] sys = "ann" -> ANN_MIN_INTERVAL
      [] sys = "kitsu" -> KITSU_MIN_INTERVAL

\* Elapsed times are kept up to the largest minimum interval: beyond it no
\* throttle waits and no two requests are too close.
TimeCap == MAL_MIN_INTERVAL

cap(t) == IF t > TimeCap THEN TimeCap ELSE t

\* An HTTP response: its status, its Retry-After header (<<>> when the
\* header is absent, <<d>> when it carries d seconds) and whether its body
\* has the shape the harness expects.
Response(status, retry_after, valid) ==
    [status |-> status, retry_after |-> retry_after, valid |-> valid]

RetryAfterValues == {1, 5}

Responses ==
    {Response(200, <<>>, TRUE), Response(200, <<>>, FALSE),
     Response(404, <<>>, TRUE), Response(401, <<>>, TRUE),
     Response(500, <<>>, TRUE), Response(429, <<>>, TRUE)}
    \cup {Response(429, <<d>>, TRUE) : d \in RetryAfterValues}

\* RETRY_DELAYS[min(attempt, len(RETRY_DELAYS)-1)], attempt counted from 0.
fallback_delay(attempt) ==
    RETRY_DELAYS[(IF attempt < Len(RETRY_DELAYS) - 1 THEN attempt
                  ELSE Len(RETRY_DELAYS) - 1) + 1]

\* delay = int(ra) if ra is not None else the fallback delay
retry_after_delay(r, attempt) ==
    IF r.retry_after # <<>> THEN r.retry_after[1] ELSE fallback_delay(attempt)

\* What one loop iteration does with the response it got: return the data,
\* return None, sleep and continue (rate limited), or take the except branch.
mal_response(r, attempt) ==
    CASE r.status = 404 -> [kind |-> "none", delay |-> 0]
      [] r.status = 429 -> [kind |-> "rate_limited", delay |-> retry_after_delay(r, attempt)]
      [] r.status \notin {404, 429, 200} -> [kind |-> "failed", delay |-> 0]
      [] r.status = 200 /\ ~r.valid -> [kind |-> "failed", delay |-> 0]
      [] OTHER -> [kind |-> "data", delay |-> 0]

jikan_response(r, attempt) ==
    CASE r.status = 404 -> [kind |-> "none", delay |-> 0]
      [] r.status = 429 -> [kind |-> "rate_limited", delay |-> retry_after_delay(r, attempt)]
      [] r.status \notin {404, 429, 200} -> [kind |-> "failed", delay |-> 0]
      [] r.status = 200 /\ ~r.valid -> [kind |-> "failed", delay |-> 0]
      [] OTHER -> [kind |-> "data", delay |-> 0]

\* ann_get has no 429 branch and returns resp.text whatever its shape.
ann_response(r, attempt) ==
    CASE r.status = 404 -> [kind |-> "none", delay |-> 0]
      [] r.status \notin {404, 200} -> [kind |-> "failed", delay |-> 0]
      [] OTHER -> [kind |-> "data", delay |-> 0]

\* kitsu_get returns None on 401, 403 and 404 and never reads Retry-After;
\* a body that is not JSON makes resp.json() raise.
kitsu_response(r, attempt) ==
    CASE r.status \in {401, 403, 404} -> [kind |-> "none", delay |-> 0]
      [] r.status = 429 -> [kind |-> "rate_limited", delay |-> fallback_delay(attempt)]
      [] r.status \notin {401, 403, 404, 429, 200} -> [kind |-> "failed", delay |-> 0]
      [] r.status = 200 /\ ~r.valid -> [kind |-> "failed", delay |-> 0]
      [] OTHER -> [kind |-> "data", delay |-> 0]

respond(sys, r, attempt) ==
    CASE sys = "mal" -> mal_response(r, attempt)
      [] sys = "jikan" -> jikan_response(r, attempt)
      [] sys = "ann" -> ann_response(r, attempt)
      [] sys = "kitsu" -> kitsu_response(r, attempt)

\* requests.get: one outbound request.  mal_get alone stamps mal_last_call
\* on every attempt; the other harnesses stamp it once before the loop.
sent(sys, acc) ==
    [acc EXCEPT !.requests = @ + 1,
                !.gaps = Append(@, acc.since_request),
                !.since_request = 0,
                !.since_call = IF sys = "mal" THEN 0 ELSE @]

\* time.sleep(delay) after request number acc.requests
slept(acc, delay, why) ==
    [acc EXCEPT !.sleeps = Append(@, [after |-> acc.requests, seconds |-> delay,
                                      why |-> why]),
                !.since_call = cap(@ + delay),
                !.since_request = cap(@ + delay)]

\* except branch: sleep RETRY_DELAYS[attempt] unless this was the last attempt
sleep_after_every_failure(acc, attempt) ==
    slept(acc, fallback_delay(attempt), "failed")

sleep_after_failure(acc, attempt) ==
    IF attempt < CALL_RETRIES - 1
    THEN slept(acc, RETRY_DELAYS[attempt + 1], "failed")
    ELSE acc

\* return None on a not-found response
none_after_retry(acc, attempt) ==
    [sleep_after_failure(acc, attempt) EXCEPT !.outcome = "none"]

return_none(acc, attempt) == [acc EXCEPT !.outcome = "none"]

\* for attempt in range(CALL_RETRIES): ... ; raise last_exception.
\* script holds the responses the server gives to the successive requests;
\* the outcome is "pending" when the script ends before the call does.
attempts_exhausted_late(attempt) == attempt > CALL_RETRIES

attempts_exhausted(attempt) == attempt >= CALL_RETRIES

RECURSIVE retry_loop(_, _, _, _)
retry_loop(sys, script, attempt, acc) ==
    IF attempts_exhausted(attempt) THEN [acc EXCEPT !.outcome = "raise"]
    ELSE IF attempt >= Len(script) THEN acc
    ELSE LET r == script[attempt + 1]
             step == respond(sys, r, attempt)
             req == sent(sys, acc)
         IN CASE step.kind = "data" -> [req EXCEPT !.outcome = "data"]
              [] step.kind = "none" -> return_none(req, attempt)
              [] step.kind = "rate_limited" ->
                    retry_loop(sys, script, attempt + 1,
                               slept([req EXCEPT !.rate_limited = @ + 1],
                                     step.delay, "rate_limited"))
              [] step.kind = "failed" ->
                    retry_loop(sys, script, attempt + 1,
                               sleep_after_failure([req EXCEPT !.failures = @ + 1],
                                                   attempt))

\* to_wait = MIN_INTERVAL - (now - last_call); if to_wait > 0: time.sleep(to_wait)
to_wait(sys, sc) == IF MIN_INTERVAL(sys) - sc > 0 THEN MIN_INTERVAL(sys) - sc ELSE 0

\* One harness call, entered sc seconds after the system's <system>_last_call stamp
\* and sr seconds after the last request sent to the system.
harness_get(sys, script, sc, sr) ==
    retry_loop(sys, script, 0,
               [outcome |-> "pending", responses |-> script, requests |-> 0,
                gaps |-> <<>>, sleeps |-> <<>>, failures |-> 0, rate_limited |-> 0,
                wait |-> to_wait(sys, sc),
                since_call |-> IF sys = "mal" THEN cap(sc + to_wait(sys, sc)) ELSE 0,
                since_request |-> cap(sr + to_wait(sys, sc))])

mal_get(script, sc, sr) == harness_get("mal", script, sc, sr)
jikan_get(script, sc, sr) == harness_get("jikan", script, sc, sr)
ann_get(script, sc, sr) == harness_get("ann", script, sc, sr)
kitsu_get(script, sc, sr) == harness_get("kitsu", script, sc, sr)

\* The response sequences a call can consume: those that end the call
\* exactly at their last response.
Scripts ==
    [sys \in Systems |->
        {script \in UNION {[1 .. k -> Responses] : k \in 1 .. CALL_RETRIES} :
            LET r == harness_get(sys, script, TimeCap, TimeCap)
            IN r.outcome # "pending" /\ r.requests = Len(script)}]

NoCall ==
    [outcome |-> "pending", responses |-> <<>>, requests |-> 0, gaps |-> <<>>,
     sleeps |-> <<>>, failures |-> 0, rate_limited |-> 0, wait |-> 0,
     since_call |-> 0, since_request |-> 0]

HarnessUnused ==
    /\ system = "none"
    /\ since_call = TimeCap
    /\ since_request = TimeCap
    /\ last_call = NoCall

\* ------------------------------------------------------ missing-id cache
load_missing_cache(file) == IF file.kind = "json" THEN Range(file.dubbed) ELSE {}

save_missing_cache(missing) == JsonFile(sorted(missing))

\* The missing-id cache as run_mal loaded it.
missing0 == load_missing_cache(cache0)

\* The last element of the "dubbed" array of automatic_mal/dubbed_japanese.json, else 0.
get_largest_known_mal_id(files) ==
    LET f == files["japanese"]
    IN IF f.kind = "json" /\ Len(f.dubbed) > 0 THEN f.dubbed[Len(f.dubbed)] ELSE 0

\* ------------------------------------------------------------ finalize_jsons
\* removal_candidates = (existing_ids & checked_ok_ids) - found_ids
removal_candidates_unchecked(existing, checked, found) == existing \ found

removal_candidates(existing, checked, found) == (existing \cap checked) \ found

\* updated_ids = (existing_ids - removal_candidates) | found_ids
updated_ids_found_only(existing, checked, found) == found

updated_ids(existing, checked, found) ==
    (existing \ removal_candidates(existing, checked, found)) \cup found

\* The languages finalize_jsons considers: keys of json_data plus existing files.
\* json_data is a defaultdict: a key exists once an id was added under it.
finalize_languages(files, jd) ==
    {l \in Langs : jd[l] # {}} \cup {l \in Langs : files[l].kind # "absent"}

finalize_jsons_append(files, jd, checked) ==
    [l \in Langs |->
        IF l \in finalize_languages(files, jd)
        THEN JsonFile(files[l].dubbed \o sorted(jd[l]))
        ELSE files[l]]

finalize_jsons_corrupt_untouched(files, jd, checked) ==
    [l \in Langs |->
        IF l \in finalize_languages(files, jd) /\ files[l].kind # "corrupt"
        THEN JsonFile(sorted(updated_ids(existing_ids(files[l]), checked, jd[l])))
        ELSE files[l]]

finalize_jsons(files, jd, checked) ==
    [l \in Langs |->
        IF l \in finalize_languages(files, jd)
        THEN JsonFile(sorted(updated_ids(existing_ids(files[l]), checked, jd[l])))
        ELSE files[l]]

\* ------------------------------------------------------- process_anime_mal
\* The voice-actor list of the first character, as Jikan returns it.
VoiceActors ==
    << [language |-> "English", person |-> 1],
       [language |-> "", person |-> 3],
       [language |-> "Japanese (dub)", person |-> 2] >>

Persons == {1, 2}

Uncached == [kind |-> "uncached", animes |-> {}]

\* The role lists a /people/<id>/voices lookup may return.
RoleSets == {{}, {start_id}, Ids}

\* Outcomes of one uncached get_anime_roles_for_va_cached call:
\*   data      jikan_get returned a payload whose "data" is a list
\*   miss      jikan_get returned None (404)
\*   malformed the payload's "data" is not a list: TransientJikanError
\*   raise     jikan_get raised after its retries
VaResponses ==
    {[kind |-> "data", animes |-> S] : S \in RoleSets}
        \cup {[kind |-> k, animes |-> {}] : k \in {"miss", "malformed", "raise"}}

\* functools.lru_cache around get_anime_roles_for_va_cached: a returned value
\* is stored, a raised exception is not.
lru_cache_all(cache, person, r) == [cache EXCEPT ![person] = r]

lru_cache(cache, person, r) ==
    IF r.kind \in {"malformed", "raise"} THEN cache ELSE [cache EXCEPT ![person] = r]

NoLookups == [p \in Persons |-> "none"]

NoChain == [id |-> 0, primary |-> "none", va |-> "none"]

\* run_kitsu has not run.
KitsuUnused ==
    /\ existing_map = {}
    /\ langs_status = [i \in Ids |-> 0]

\* A source file that does not exist.
AbsentSource == [kind |-> "absent", data |-> <<>>]

\* run_anisearch has not run.
AnisearchUnused ==
    /\ anisearch_source = AbsentSource
    /\ anisearch_mapping = <<>>

\* crunchyroll_data.json before main writes it.
NotWritten == [written |-> FALSE, entries |-> <<>>]

\* crunchyroll_scraper.py has not run.
FanoutUnused ==
    /\ all_shows = <<>>
    /\ tasks = <<>>
    /\ semaphore = 0
    /\ results = <<>>
    /\ crunchyroll_data = NotWritten
    /\ detail_responses = <<>>

\* No scan has looked anything up.
CallsUnused ==
    /\ looked_up = {}
    /\ va_log = NoLookups
    /\ cache0 = AbsentFile
    /\ chain = NoChain

\* The for loop over voice_actors["data"], from entry i on.
\* acc = [json, cache, had_transient, log, calls].
RECURSIVE va_loop(_, _, _, _)
va_loop(i, mal_id, resp, acc) ==
    IF i > Len(VoiceActors) THEN acc
    ELSE
      LET e == VoiceActors[i]
          lang_key == sanitize_lang(e.language)
      IN IF lang_key = "" \/ e.person \notin Persons
         THEN va_loop(i + 1, mal_id, resp, acc)
         ELSE
           LET memoized == acc.cache[e.person] # Uncached
               r == IF memoized THEN acc.cache[e.person] ELSE resp[e.person]
               acc1 == IF memoized
                       THEN [acc EXCEPT !.log[e.person] = "memo"]
                       ELSE [acc EXCEPT !.cache = lru_cache(@, e.person, r),
                                        !.log[e.person] =
                                            IF r.kind \in {"malformed", "raise"}
                                            THEN "transient" ELSE r.kind,
                                        !.calls = @ + 1]
           IN IF r.kind \in {"malformed", "raise"}
              THEN va_loop(i + 1, mal_id, resp,
                           [acc1 EXCEPT !.had_transient = TRUE])
              ELSE
                LET j1 == IF r.kind = "data" /\ mal_id \in r.animes
                          THEN [acc.json EXCEPT ![lang_key] = @ \cup {mal_id}]
                          ELSE acc.json
                IN va_loop(i + 1, mal_id, resp, [acc1 EXCEPT !.json = j1])

\* voice_actors is None or its "data" is not a list: return None.
voice_actors_unusable_when_raised(va) == va = "raise"

voice_actors_unusable(va) == va # "list"

\* primary: outcome of get_characters (mal_get): "404", "raise" (retries
\*          exhausted), "nochars" (payload without characters), "chars".
\* va:      outcome of get_voice_actors (jikan_get): "raise", "miss", "list".
\* Result:  res is "True", "False", "None" as returned, or "raise" when the
\*          exception of mal_get leaves process_anime_mal; calls is the number
\*          of harness calls issued and log what became of each person's lookup.
process_anime_mal(mal_id, primary, va, resp, jd, cache, last404) ==
    IF primary = "raise"
    THEN [res |-> "raise", json |-> jd, cache |-> cache, last404 |-> last404,
          calls |-> 1, log |-> NoLookups]
    ELSE IF primary = "404"
    THEN [res |-> "True", json |-> jd, cache |-> cache, last404 |-> TRUE,
          calls |-> 1, log |-> NoLookups]
    ELSE IF primary = "nochars"
    THEN [res |-> "False", json |-> jd, cache |-> cache, last404 |-> FALSE,
          calls |-> 1, log |-> NoLookups]
    ELSE IF voice_actors_unusable(va)
    THEN [res |-> "None", json |-> jd, cache |-> cache, last404 |-> FALSE,
          calls |-> 2, log |-> NoLookups]
    ELSE
      LET acc == va_loop(1, mal_id, resp,
                         [json |-> jd, cache |-> cache, had_transient |-> FALSE,
                          log |-> NoLookups, calls |-> 2])
      IN [res |-> IF acc.had_transient THEN "None" ELSE "False",
          json |-> acc.json, cache |-> acc.cache, last404 |-> FALSE,
          calls |-> acc.calls, log |-> acc.log]

\* ------------------------------------------------------------------ run_mal
\* mal_id of the next iteration: enumerate(range(start_id, end_id + 1), 1).
next_mal_id == start_id + idx

\* One call of finalize_jsons("mal", checked), as the history records it.
FinCall(old, jd, checked) ==
    [old |-> old, found |-> jd, checked |-> checked,
     new |-> finalize_jsons(old, jd, checked)]

\* The finally block of run_mal: finalize_jsons, save_missing_cache.
\* pre is the log of the calls the same step made before it.
Finally_without_flush(files, jd, checked, missing, pre, handled) ==
    /\ mal_files' = files
    /\ cache_file' = cache_file
    /\ fin_log' = pre
    /\ flushed' = flushed
    /\ pc' = "done"

Finally(files, jd, checked, missing, pre, handled) ==
    LET call == FinCall(files, jd, checked)
    IN /\ mal_files' = call.new
       /\ cache_file' = save_missing_cache(missing)
       /\ fin_log' = Append(pre, call)
       /\ flushed' = handled
       /\ pc' = "done"

\* if consecutive_404 >= MAX_CONSECUTIVE_404: break
early_stop_late(was_404, count) == was_404 /\ count > MAX_CONSECUTIVE_404

early_stop(was_404, count) == was_404 /\ count >= MAX_CONSECUTIVE_404

\* The rest of a loop iteration once was_404 is known: the consecutive-404
\* counter and its break, the periodic checkpoint, and, when the iteration is
\* the last one, the finally block.
LoopTail(was_404, jd, checked, missing) ==
    LET c1 == IF was_404 THEN consecutive_404 + 1 ELSE 0
        stop == early_stop(was_404, c1)
        idx1 == idx + 1
        checkpoint == ~stop /\ idx1 % FINALIZE_EVERY_N = 0
        call == FinCall(mal_files, jd, checked)
        files1 == IF checkpoint THEN call.new ELSE mal_files
        log1 == IF checkpoint THEN <<call>> ELSE <<>>
    IN /\ consecutive_404' = c1
       /\ idx' = idx1
       /\ IF stop \/ next_mal_id = MaxId
          THEN Finally(files1, jd, checked, missing, log1, idx1)
          ELSE /\ mal_files' = files1
               /\ cache_file' = IF checkpoint THEN save_missing_cache(missing)
                                ELSE cache_file
               /\ fin_log' = log1
               /\ flushed' = IF checkpoint THEN idx1 ELSE flushed
               /\ pc' = "loop"

IsCachedMiss_beyond(mal_id) ==
    /\ largest_known_mal_id # 0
    /\ mal_id > largest_known_mal_id
    /\ mal_id \in missing_mal_ids

IsCachedMiss(mal_id) ==
    /\ largest_known_mal_id # 0
    /\ mal_id <= largest_known_mal_id
    /\ mal_id \in missing_mal_ids

\* was_404 = True for an id skipped from the cache.
skip_is_no_miss(mal_id) == FALSE

skip_is_miss(mal_id) == IsCachedMiss(mal_id)

\* An id cached as 404 at or below the largest known id: no API call, not checked.
SkipCached ==
    /\ pc = "loop"
    /\ UNCHANGED <<mergeVars, harnessVars, kitsuVars, fanoutVars, anisearchVars>>
    /\ IsCachedMiss(next_mal_id)
    /\ verdict' = [verdict EXCEPT ![next_mal_id] = "skipped"]
    /\ LoopTail(skip_is_miss(next_mal_id), json_data, checked_ok_ids, missing_mal_ids)
    /\ va_log' = NoLookups
    /\ chain' = [id |-> next_mal_id, primary |-> "skipped", va |-> "none"]
    /\ UNCHANGED <<json_data, checked_ok_ids, missing_mal_ids, largest_known_mal_id,
                   last_mal_404, va_cache, files0, looked_up, cache0>>

\* run_mal, lines 1396-1405: what the result of process_anime_mal does to
\* checked_ok_ids and missing_mal_ids.  res is None: neither is touched.
mark_checked_always(res, checked, mal_id) == checked \cup {mal_id}

mark_checked_present_only(res, checked, mal_id) ==
    IF res = "False" THEN checked \cup {mal_id} ELSE checked

mark_checked(res, checked, mal_id) ==
    IF res = "None" THEN checked ELSE checked \cup {mal_id}

mark_missing_only_new(res, missing, mal_id) ==
    IF res = "True" THEN {mal_id} ELSE missing

mark_missing(res, missing, mal_id) ==
    IF res = "True" THEN missing \cup {mal_id} ELSE missing

\* The responses the external systems may give to one process_anime_mal call.
\* A lookup that is not issued (a later call of a chain that ended, a person
\* already in the lru_cache) has no response to choose.
NoResponse == [p \in Persons |-> Uncached]

ProcessInputs(cache) ==
    {[primary |-> p, va |-> "miss", resp |-> NoResponse] : p \in {"404", "nochars"}}
        \cup {[primary |-> "chars", va |-> v, resp |-> NoResponse] : v \in {"raise", "miss"}}
        \cup {[primary |-> "chars", va |-> "list", resp |-> f] :
                f \in {g \in [Persons -> VaResponses \cup {Uncached}] :
                         \A p \in Persons : (g[p] = Uncached) <=> (cache[p] # Uncached)}}

\* process_anime_mal returned True, False or None.
ProcessId ==
    /\ pc = "loop"
    /\ UNCHANGED <<mergeVars, harnessVars, kitsuVars, fanoutVars, anisearchVars>>
    /\ ~IsCachedMiss(next_mal_id)
    /\ \E in \in ProcessInputs(va_cache) :
         LET r == process_anime_mal(next_mal_id, in.primary, in.va, in.resp,
                                    json_data, va_cache, last_mal_404)
             was_404 == r.res = "True"
             checked1 == mark_checked(r.res, checked_ok_ids, next_mal_id)
             missing1 == mark_missing(r.res, missing_mal_ids, next_mal_id)
         IN /\ json_data' = r.json
            /\ va_cache' = r.cache
            /\ last_mal_404' = r.last404
            /\ checked_ok_ids' = checked1
            /\ missing_mal_ids' = missing1
            /\ verdict' = [verdict EXCEPT ![next_mal_id] =
                              CASE r.res = "True" -> "absent"
                                [] r.res = "False" -> "present"
                                [] OTHER -> "transient"]
            /\ looked_up' = IF r.calls > 0 THEN looked_up \cup {next_mal_id} ELSE looked_up
            /\ va_log' = r.log
            /\ chain' = [id |-> next_mal_id, primary |-> in.primary,
                         va |-> IF in.primary = "chars" THEN in.va ELSE "none"]
            /\ LoopTail(was_404, r.json, checked1, missing1)
    /\ UNCHANGED <<largest_known_mal_id, files0, cache0>>

\* mal_get exhausted its retries inside process_anime_mal: the exception
\* leaves the loop, is caught by "except Exception", and the finally block runs.
ProcessRaises ==
    /\ pc = "loop"
    /\ UNCHANGED <<mergeVars, harnessVars, kitsuVars, fanoutVars, anisearchVars>>
    /\ ~IsCachedMiss(next_mal_id)
    /\ LET r == process_anime_mal(next_mal_id, "raise", "raise",
                                  [p \in Persons |-> Uncached],
                                  json_data, va_cache, last_mal_404)
       IN /\ r.res = "raise"
          /\ json_data' = r.json
          /\ va_cache' = r.cache
          /\ last_mal_404' = r.last404
          /\ looked_up' = IF r.calls > 0 THEN looked_up \cup {next_mal_id} ELSE looked_up
          /\ va_log' = r.log
          /\ Finally(mal_files, r.json, checked_ok_ids, missing_mal_ids, <<>>, idx)
    /\ verdict' = [verdict EXCEPT ![next_mal_id] = "transient"]
    /\ chain' = [id |-> next_mal_id, primary |-> "raise", va |-> "none"]
    /\ UNCHANGED <<checked_ok_ids, missing_mal_ids, largest_known_mal_id,
                   consecutive_404, idx, files0, cache0>>

\* KeyboardInterrupt between two iterations: "except KeyboardInterrupt", finally.
Interrupt ==
    /\ pc = "loop"
    /\ UNCHANGED <<mergeVars, harnessVars, kitsuVars, fanoutVars, anisearchVars>>
    /\ Finally(mal_files, json_data, checked_ok_ids, missing_mal_ids, <<>>, idx)
    /\ UNCHANGED <<json_data, checked_ok_ids, missing_mal_ids, largest_known_mal_id,
                   consecutive_404, idx, last_mal_404, va_cache, files0, verdict,
                   looked_up, cache0>>
    /\ va_log' = NoLookups
    /\ chain' = NoChain

\* ================================================= consensus merge engine
\* merge_manual_and_automatic.py.  The "language" and attribution fields of
\* the output documents are left out; a key k of the counts document stands
\* for str(k).

\* The automatic sources, in the order load_language_sources lists them.
ProviderOrder ==
    <<"mal", "anilist", "ann", "anisearch", "kitsu", "hianime", "nsfw", "kenny",
      "animeschedule", "crunchyroll">>

Providers == Range(ProviderOrder)

OtherProviders == Providers \ {"mal"}

Levels == {"low", "normal", "high", "very-high"}

CONFIDENCE_LEVELS ==
    [level \in Levels |->
        CASE level = "low" -> 1
          [] level = "normal" -> 2
          [] level = "high" -> 3
          [] OTHER -> 4]

AbsentManual == [kind |-> "absent", dubbed |-> <<>>, not_dubbed |-> <<>>, partial |-> <<>>]
CorruptManual == [kind |-> "corrupt", dubbed |-> <<>>, not_dubbed |-> <<>>, partial |-> <<>>]
ManualFile(d, n, pa) == [kind |-> "json", dubbed |-> d, not_dubbed |-> n, partial |-> pa]

AbsentConfidence == [kind |-> "absent", dubbed |-> <<>>, partial |-> <<>>]
AbsentCounts == [kind |-> "absent", counts |-> <<>>, partial |-> <<>>]

\* load_json: the parsed document, or {} when the file is missing or unparsable;
\* doc.get(field) of {} is None.
load_json(file, field) == IF file.kind = "json" THEN file[field] ELSE <<>>

\* int_set: the set of the integers of a list (None reads as the empty list).
int_set(arr) == Range(arr)

\* save_json opens the path with "w": the new document replaces the old one.
save_json_append(old, data) ==
    IF old.kind = "json" THEN [data EXCEPT !.partial = old.partial \o @] ELSE data

save_json(old, data) == data

\* The provider fact file of a language: automatic_mal is the MAL adapter's output.
source_file(provider, lang, mal, others) ==
    IF provider = "mal" THEN mal[lang] ELSE others[provider][lang]

load_language_sources(lang, manual, mal, others) ==
    [manual_dubbed |-> int_set(load_json(manual[lang], "dubbed")),
     manual_not_dubbed |-> int_set(load_json(manual[lang], "not_dubbed")),
     manual_partial |-> int_set(load_json(manual[lang], "partial")),
     auto_sources |-> [p \in Providers |->
                          int_set(load_json(source_file(p, lang, mal, others), "dubbed"))]]

\* compute_counts: for each source in turn, counts[mid] = counts.get(mid, 0) + 1
\* for every mid of the source.
RECURSIVE count_sources(_, _, _)
count_sources(names, sources, counts) ==
    IF names = <<>> THEN counts
    ELSE
      LET ids == sources[Head(names)]
          c1 == [mid \in (DOMAIN counts) \cup ids |->
                    IF mid \in DOMAIN counts
                    THEN IF mid \in ids THEN counts[mid] + 1 ELSE counts[mid]
                    ELSE 1]
      IN count_sources(Tail(names), sources, c1)

compute_counts_presence(names, sources) ==
    [mid \in UNION {sources[names[i]] : i \in 1 .. Len(names)} |-> 1]

compute_counts(names, sources) == count_sources(names, sources, <<>>)

\* for mid in list(counts.keys()): if mid in manual_not_dubbed: del counts[mid]
delete_not_dubbed(counts, manual_not_dubbed) ==
    [mid \in (DOMAIN counts) \ manual_not_dubbed |-> counts[mid]]

\* candidates = {mid for mid, c in counts.items() if c >= threshold}
candidates_strict(counts, threshold) == {mid \in DOMAIN counts : counts[mid] > threshold}

candidates_exact(counts, threshold) == {mid \in DOMAIN counts : counts[mid] = threshold}

candidates(counts, threshold) == {mid \in DOMAIN counts : counts[mid] >= threshold}

\* final_dubbed = (manual_dubbed | candidates) - manual_not_dubbed - manual_partial
final_dubbed_manual_last(manual_dubbed, cands, manual_not_dubbed, manual_partial) ==
    ((cands \ manual_not_dubbed) \ manual_partial) \cup manual_dubbed

final_dubbed_keep_partial(manual_dubbed, cands, manual_not_dubbed, manual_partial) ==
    (manual_dubbed \cup cands) \ manual_not_dubbed

final_dubbed_candidates_only(manual_dubbed, cands, manual_not_dubbed, manual_partial) ==
    (cands \ manual_not_dubbed) \ manual_partial

final_dubbed(manual_dubbed, cands, manual_not_dubbed, manual_partial) ==
    ((manual_dubbed \cup cands) \ manual_not_dubbed) \ manual_partial

\* manual_partial = manual_partial - manual_not_dubbed
partial_verbatim(manual_partial, manual_not_dubbed) == manual_partial

partial_without_not_dubbed(manual_partial, manual_not_dubbed) ==
    manual_partial \ manual_not_dubbed

\* build_confidence_outputs(filename): the counts document and the four
\* confidence documents of one language.
build_confidence_outputs(lang, manual, mal, others) ==
    LET info == load_language_sources(lang, manual, mal, others)
        sources_for_counts ==
            [n \in Providers \cup {"manual"} |->
                IF n = "manual" THEN info.manual_dubbed ELSE info.auto_sources[n]]
        counts0 == compute_counts(ProviderOrder \o <<"manual">>, sources_for_counts)
        counts == IF info.manual_not_dubbed # {}
                  THEN delete_not_dubbed(counts0, info.manual_not_dubbed)
                  ELSE counts0
        manual_partial == partial_without_not_dubbed(info.manual_partial,
                                                     info.manual_not_dubbed)
    IN [counts |-> [kind |-> "json", counts |-> counts, partial |-> sorted(manual_partial)],
        confidence |->
            [level \in Levels |->
                [kind |-> "json",
                 dubbed |-> sorted(final_dubbed(info.manual_dubbed,
                                                candidates(counts, CONFIDENCE_LEVELS[level]),
                                                info.manual_not_dubbed, manual_partial)),
                 partial |-> sorted(manual_partial)]]]

\* list_language_files: the languages with a dubbed_<lang>.json in the manual
\* directory or in any automatic source directory.
list_language_files(manual, mal, others) ==
    {l \in Langs :
        \/ manual[l].kind # "absent"
        \/ \E p \in Providers : source_file(p, l, mal, others).kind # "absent"}

\* main: build_confidence_outputs for every language found; each document is
\* written with save_json.
merge_main(manual, mal, others, out) ==
    LET found == list_language_files(manual, mal, others)
    IN [l \in Langs |->
          IF l \in found
          THEN LET built == build_confidence_outputs(l, manual, mal, others)
               IN [counts |-> save_json(out[l].counts, built.counts),
                   confidence |->
                       [level \in Levels |->
                           save_json(out[l].confidence[level], built.confidence[level])]]
          ELSE out[l]]

NoOutputs ==
    [l \in Langs |->
        [counts |-> AbsentCounts, confidence |-> [level \in Levels |-> AbsentConfidence]]]

\* -------------------------------------------------------------------- Init
\* Fact files a previous run may have left: none, unparsable, or an
\* ascending array.
EnglishFiles == {AbsentFile, CorruptFile, JsonFile(<<start_id>>), JsonFile(sorted(Ids))}

JapaneseFiles == {AbsentFile, JsonFile(<<start_id, start_id + 1>>), JsonFile(sorted(Ids))}

CacheFiles == {AbsentFile, CorruptFile, JsonFile(<<start_id>>),
               JsonFile(sorted(Ids))}

\* What the other adapters and the maintainers left on disk before a scan.
OtherFixture ==
    [p \in OtherProviders |->
        [l \in Langs |-> IF p = "anilist" /\ l = "english" THEN JsonFile(sorted(Ids))
                         ELSE AbsentFile]]

ManualFixture ==
    [l \in Langs |-> IF l = "english" THEN ManualFile(<<start_id>>, <<MaxId>>, <<>>)
                     ELSE AbsentManual]

MalFixture ==
    [l \in Langs |-> IF l = "english" THEN JsonFile(sorted(Ids)) ELSE JsonFile(<<start_id>>)]

\* run_mal up to the loop: load_missing_cache, get_largest_known_mal_id.
Init ==
    /\ mal_files \in {[l \in Langs |-> IF l = "english" THEN e ELSE j] :
                        e \in EnglishFiles, j \in JapaneseFiles}
    /\ cache_file \in CacheFiles
    /\ files0 = mal_files
    /\ missing_mal_ids = load_missing_cache(cache_file)
    /\ cache0 = cache_file
    /\ chain = NoChain
    /\ looked_up = {}
    /\ va_log = NoLookups
    /\ largest_known_mal_id = get_largest_known_mal_id(mal_files)
    /\ json_data = [l \in Langs |-> {}]
    /\ checked_ok_ids = {}
    /\ consecutive_404 = 0
    /\ idx = 0
    /\ last_mal_404 = FALSE
    /\ va_cache = [p \in Persons |-> Uncached]
    /\ verdict = [i \in Ids |-> "unchecked"]
    /\ fin_log = <<>>
    /\ flushed = 0
    /\ pc = "loop"
    /\ other_files = OtherFixture
    /\ manual_files = ManualFixture
    /\ outputs = NoOutputs
    /\ prev_outputs = NoOutputs
    /\ HarnessUnused
    /\ KitsuUnused
    /\ FanoutUnused
    /\ AnisearchUnused

Next == SkipCached \/ ProcessId \/ ProcessRaises \/ Interrupt

Spec == Init /\ [][Next]_vars


\* ---------------------------------------------------------------- SpecMerge
\* One invocation of the merge script.  pc is "merge_start" before the first
\* invocation, "merged" after it, "remerged" after any later one.
RunMerge ==
    /\ pc \in {"merge_start", "merged", "remerged"}
    /\ outputs' = merge_main(manual_files, mal_files, other_files, outputs)
    /\ prev_outputs' = outputs
    /\ pc' = IF pc = "merge_start" THEN "merged" ELSE "remerged"
    /\ UNCHANGED <<mal_files, cache_file, json_data, checked_ok_ids, missing_mal_ids,
                   largest_known_mal_id, consecutive_404, idx, last_mal_404, va_cache,
                   files0, verdict, fin_log, flushed, other_files, manual_files>>
    /\ UNCHANGED <<harnessVars, callVars, kitsuVars, fanoutVars, anisearchVars>>

\* The ids of the merge inputs are 1 .. MaxMergeId.
MaxMergeId == 2

MergeIds == 1 .. MaxMergeId

\* Support levels 0 .. the highest threshold.
MaxSupport == CONFIDENCE_LEVELS["very-high"]

\* For each id: how many providers (the first ones of ProviderOrder) list it,
\* and in which manual lists it is.
Patterns == [support : 0 .. MaxSupport, dubbed : BOOLEAN, not_dubbed : BOOLEAN,
             partial : BOOLEAN]

ProviderIndex(p) == CHOOSE i \in 1 .. Len(ProviderOrder) : ProviderOrder[i] = p

FileOf(S) == IF S = {} THEN AbsentFile ELSE JsonFile(sorted(S))

\* The English inputs described by pat; the Japanese inputs are fixed: two
\* provider files and an unparsable manual file.
InputsOf(pat) ==
    LET set_of(p) == {i \in MergeIds : pat[i].support >= ProviderIndex(p)}
        d == {i \in MergeIds : pat[i].dubbed}
        n == {i \in MergeIds : pat[i].not_dubbed}
        pa == {i \in MergeIds : pat[i].partial}
    IN [mal |-> [l \in Langs |-> IF l = "english" THEN FileOf(set_of("mal"))
                                 ELSE JsonFile(<<1>>)],
        others |-> [p \in OtherProviders |->
                       [l \in Langs |->
                           IF l = "english" THEN FileOf(set_of(p))
                           ELSE IF p = "anilist" THEN JsonFile(<<1, 2>>) ELSE AbsentFile]],
        manual |-> [l \in Langs |->
                       IF l = "english"
                       THEN IF d \cup n \cup pa = {} THEN AbsentManual
                            ELSE ManualFile(sorted(d), sorted(n), sorted(pa))
                       ELSE CorruptManual]]

\* Scenario A: Provider1 = {100,200}, Provider2 = {200,300}, not_dubbed = [300],
\* dubbed = [400].
ScenarioA ==
    [mal |-> [l \in Langs |-> IF l = "english" THEN JsonFile(<<100, 200>>) ELSE AbsentFile],
     others |-> [p \in OtherProviders |->
                    [l \in Langs |->
                        IF l = "english" /\ p = "anilist" THEN JsonFile(<<200, 300>>)
                        ELSE AbsentFile]],
     manual |-> [l \in Langs |->
                    IF l = "english" THEN ManualFile(<<400>>, <<300>>, <<>>)
                    ELSE AbsentManual]]

HasInputs(in) ==
    /\ mal_files = in.mal
    /\ other_files = in.others
    /\ manual_files = in.manual

\* The merge script before main runs: nothing written yet, no scan state.
MergeStart ==
    /\ outputs = NoOutputs
    /\ prev_outputs = NoOutputs
    /\ pc = "merge_start"
    /\ cache_file = AbsentFile
    /\ files0 = mal_files
    /\ missing_mal_ids = {}
    /\ largest_known_mal_id = 0
    /\ json_data = [l \in Langs |-> {}]
    /\ checked_ok_ids = {}
    /\ consecutive_404 = 0
    /\ idx = 0
    /\ last_mal_404 = FALSE
    /\ va_cache = [p \in Persons |-> Uncached]
    /\ verdict = [i \in Ids |-> "unchecked"]
    /\ fin_log = <<>>
    /\ flushed = 0
    /\ HarnessUnused
    /\ CallsUnused
    /\ KitsuUnused
    /\ FanoutUnused
    /\ AnisearchUnused

InitMerge ==
    /\ \/ \E pat \in [MergeIds -> Patterns] : HasInputs(InputsOf(pat))
       \/ HasInputs(ScenarioA)
    /\ MergeStart

NextMerge == RunMerge

SpecMerge == InitMerge /\ [][NextMerge]_vars

\* -------------------------------------------------------------- SpecHarness
\* A process that calls the harness of one system again and again.  pc is
\* "idle" between calls and "returned" right after one.
\* At process start <system>_last_call is 0, far in the past.
Call ==
    /\ pc = "idle"
    /\ \E script \in Scripts[system] :
          last_call' = harness_get(system, script, since_call, since_request)
    /\ since_call' = last_call'.since_call
    /\ since_request' = last_call'.since_request
    /\ pc' = "returned"
    /\ UNCHANGED <<system, mal_files, cache_file, json_data, checked_ok_ids,
                   missing_mal_ids, largest_known_mal_id, consecutive_404, idx,
                   last_mal_404, va_cache, files0, verdict, fin_log, flushed, mergeVars,
                   callVars, kitsuVars, fanoutVars, anisearchVars>>

\* The caller works for gap seconds before it calls the harness again.
Elapse ==
    /\ pc = "returned"
    /\ \E gap \in 0 .. TimeCap :
          /\ since_call' = cap(since_call + gap)
          /\ since_request' = cap(since_request + gap)
    /\ last_call' = NoCall
    /\ pc' = "idle"
    /\ UNCHANGED <<system, mal_files, cache_file, json_data, checked_ok_ids,
                   missing_mal_ids, largest_known_mal_id, consecutive_404, idx,
                   last_mal_404, va_cache, files0, verdict, fin_log, flushed, mergeVars,
                   callVars, kitsuVars, fanoutVars, anisearchVars>>

InitHarness ==
    /\ system \in Systems
    /\ since_call = TimeCap
    /\ since_request = TimeCap
    /\ last_call = NoCall
    /\ pc = "idle"
    /\ mal_files = [l \in Langs |-> AbsentFile]
    /\ cache_file = AbsentFile
    /\ files0 = mal_files
    /\ missing_mal_ids = {}
    /\ largest_known_mal_id = 0
    /\ json_data = [l \in Langs |-> {}]
    /\ checked_ok_ids = {}
    /\ consecutive_404 = 0
    /\ idx = 0
    /\ last_mal_404 = FALSE
    /\ va_cache = [p \in Persons |-> Uncached]
    /\ verdict = [i \in Ids |-> "unchecked"]
    /\ fin_log = <<>>
    /\ flushed = 0
    /\ other_files = [p \in OtherProviders |-> [l \in Langs |-> AbsentFile]]
    /\ manual_files = [l \in Langs |-> AbsentManual]
    /\ outputs = NoOutputs
    /\ prev_outputs = NoOutputs
    /\ CallsUnused
    /\ KitsuUnused
    /\ FanoutUnused
    /\ AnisearchUnused

NextHarness == Call \/ Elapse

SpecHarness == InitHarness /\ [][NextHarness]_vars

\* A server that goes on answering for longer than a call may ask: what it
\* would answer to one request more than CALL_RETRIES, each answer a success, a
\* not-found, a server error or a rate limit without Retry-After.
ServerScripts ==
    [1 .. CALL_RETRIES + 1 ->
        {r \in Responses : r.valid /\ r.retry_after = <<>> /\ r.status # 401}]

\* One harness call against such a server.
CallServer ==
    /\ pc = "idle"
    /\ \E script \in ServerScripts :
          last_call' = harness_get(system, script, since_call, since_request)
    /\ since_call' = last_call'.since_call
    /\ since_request' = last_call'.since_request
    /\ pc' = "returned"
    /\ UNCHANGED <<system, mal_files, cache_file, json_data, checked_ok_ids,
                   missing_mal_ids, largest_known_mal_id, consecutive_404, idx,
                   last_mal_404, va_cache, files0, verdict, fin_log, flushed, mergeVars,
                   callVars, kitsuVars, fanoutVars, anisearchVars>>

NextServer == CallServer \/ Elapse

SpecServer == InitHarness /\ [][NextServer]_vars

\* ---------------------------------------------------------------- SpecKitsu
\* One Kitsu adapter run (run_kitsu).  pc is "kitsu_loop" while the loop
\* iterates and "kitsu_done" after the finally block; the adapter's fact
\* files are other_files["kitsu"], known_missing is held in missing_mal_ids.

\* The statuses Kitsu may give to every request of one lookup.
KitsuStatuses == {200, 401, 404, 500}

\* kitsu_get when every attempt gets the same status.
kitsu_get_outcome(status) ==
    kitsu_get([i \in 1 .. CALL_RETRIES |-> Response(status, <<>>, TRUE)],
              TimeCap, TimeCap).outcome

\* kitsu_find_kitsu_id_by_mal: "kid" when the payload maps the MAL id,
\* "None" when kitsu_get returned None or the payload has no mapping.
kitsu_find_kitsu_id_by_mal(status, mapped) ==
    CASE kitsu_get_outcome(status) = "raise" -> "raise"
      [] kitsu_get_outcome(status) = "data" /\ mapped -> "kid"
      [] OTHER -> "None"

\* kitsu_list_languages: the normalized keys when kitsu_get returned a list,
\* the empty set when it returned None.
kitsu_list_languages(status, raw) ==
    CASE kitsu_get_outcome(status) = "raise" -> [res |-> "raise", langs |-> {}]
      [] kitsu_get_outcome(status) = "data" ->
            [res |-> "ok", langs |-> {sanitize_lang(x) : x \in raw} \ {""}]
      [] OTHER -> [res |-> "ok", langs |-> {}]

KitsuRawLanguages == {{}, {"English"}}

\* What Kitsu answers for one id.  A lookup that is not issued has status 0.
KitsuInputs(known) ==
    LET languages ==
            {[langs_status |-> 200, raw |-> r] : r \in KitsuRawLanguages}
                \cup {[langs_status |-> st, raw |-> {}] : st \in KitsuStatuses \ {200}}
        with_map(m, st) ==
            {[map_status |-> st, mapped |-> m, langs_status |-> l.langs_status,
              raw |-> l.raw] : l \in languages}
    IN IF known THEN with_map(TRUE, 0)
       ELSE with_map(TRUE, 200)
              \cup {[map_status |-> st, mapped |-> FALSE, langs_status |-> 0, raw |-> {}] :
                      st \in KitsuStatuses}

\* The body of the loop of run_kitsu for an id that is not in known_missing.
\* res: "unmapped" (continue), "checked", or "raise".
kitsu_iteration(mal_id, known, in, jd, checked) ==
    LET kid == IF known THEN "kid"
               ELSE kitsu_find_kitsu_id_by_mal(in.map_status, in.mapped)
        found == kitsu_list_languages(in.langs_status, in.raw)
        none == [res |-> "unmapped", json |-> jd, checked |-> checked,
                 discovered |-> FALSE, status |-> 0]
    IN CASE kid = "raise" -> [none EXCEPT !.res = "raise"]
         [] kid = "None" -> none
         [] kid = "kid" /\ found.res = "raise" ->
               [none EXCEPT !.res = "raise", !.discovered = ~known,
                            !.status = in.langs_status]
         [] OTHER ->
               [res |-> "checked",
                json |-> [l \in Langs |-> IF l \in found.langs THEN jd[l] \cup {mal_id}
                                          ELSE jd[l]],
                checked |-> checked \cup {mal_id},
                discovered |-> ~known,
                status |-> in.langs_status]

\* output_dir = SOURCES_DIR/automatic_<api_mode>: the files finalize_jsons
\* writes are those of the adapter that runs.
write_provider_everywhere(others, api_mode, files) == [p \in DOMAIN others |-> files]

write_provider(others, api_mode, files) == [others EXCEPT ![api_mode] = files]

\* The finally block of run_kitsu.
KitsuFinally(files, jd, checked, pre, handled) ==
    LET fin == FinCall(files, jd, checked)
    IN /\ other_files' = write_provider(other_files, "kitsu", fin.new)
       /\ fin_log' = Append(pre, fin)
       /\ flushed' = handled
       /\ pc' = "kitsu_done"

\* The end of an iteration: the checkpoint, which a "continue" jumps over,
\* and, after the last id, the finally block.
KitsuTail(continued, jd, checked) ==
    LET idx1 == idx + 1
        checkpoint == ~continued /\ idx1 % FINALIZE_EVERY_N = 0
        fin == FinCall(other_files["kitsu"], jd, checked)
        files1 == IF checkpoint THEN fin.new ELSE other_files["kitsu"]
        log1 == IF checkpoint THEN <<fin>> ELSE <<>>
    IN /\ idx' = idx1
       /\ IF next_mal_id = MaxId
          THEN KitsuFinally(files1, jd, checked, log1, idx1)
          ELSE /\ other_files' = write_provider(other_files, "kitsu", files1)
               /\ fin_log' = log1
               /\ flushed' = IF checkpoint THEN idx1 ELSE flushed
               /\ pc' = "kitsu_loop"

KitsuFrame ==
    UNCHANGED <<mal_files, cache_file, missing_mal_ids, largest_known_mal_id,
                consecutive_404, last_mal_404, va_cache, files0, manual_files,
                outputs, prev_outputs, harnessVars, callVars, fanoutVars, anisearchVars>>

\* if mal_id in known_missing: continue
KitsuSkipCached ==
    /\ pc = "kitsu_loop"
    /\ next_mal_id \in missing_mal_ids
    /\ verdict' = [verdict EXCEPT ![next_mal_id] = "skipped"]
    /\ KitsuTail(TRUE, json_data, checked_ok_ids)
    /\ UNCHANGED <<json_data, checked_ok_ids, kitsuVars>>
    /\ KitsuFrame

\* An iteration that ends without an exception.
KitsuProcess ==
    /\ pc = "kitsu_loop"
    /\ next_mal_id \notin missing_mal_ids
    /\ \E in \in KitsuInputs(next_mal_id \in existing_map) :
         LET r == kitsu_iteration(next_mal_id, next_mal_id \in existing_map, in,
                                  json_data, checked_ok_ids)
         IN /\ r.res # "raise"
            /\ json_data' = r.json
            /\ checked_ok_ids' = r.checked
            /\ existing_map' = IF r.discovered THEN existing_map \cup {next_mal_id}
                               ELSE existing_map
            /\ langs_status' = [langs_status EXCEPT ![next_mal_id] = r.status]
            /\ verdict' = [verdict EXCEPT ![next_mal_id] = r.res]
            /\ KitsuTail(r.res = "unmapped", r.json, r.checked)
    /\ KitsuFrame

\* kitsu_get exhausted its retries: "except Exception", then the finally block.
KitsuRaises ==
    /\ pc = "kitsu_loop"
    /\ next_mal_id \notin missing_mal_ids
    /\ \E in \in KitsuInputs(next_mal_id \in existing_map) :
         LET r == kitsu_iteration(next_mal_id, next_mal_id \in existing_map, in,
                                  json_data, checked_ok_ids)
         IN /\ r.res = "raise"
            /\ existing_map' = IF r.discovered THEN existing_map \cup {next_mal_id}
                               ELSE existing_map
            /\ langs_status' = [langs_status EXCEPT ![next_mal_id] = r.status]
    /\ verdict' = [verdict EXCEPT ![next_mal_id] = "transient"]
    /\ KitsuFinally(other_files["kitsu"], json_data, checked_ok_ids, <<>>, idx)
    /\ UNCHANGED <<json_data, checked_ok_ids, idx>>
    /\ KitsuFrame

\* KeyboardInterrupt between two iterations.
KitsuInterrupt ==
    /\ pc = "kitsu_loop"
    /\ KitsuFinally(other_files["kitsu"], json_data, checked_ok_ids, <<>>, idx)
    /\ UNCHANGED <<json_data, checked_ok_ids, idx, verdict, kitsuVars>>
    /\ KitsuFrame

KitsuFiles ==
    {[l \in Langs |-> AbsentFile],
     [l \in Langs |-> IF l = "english" THEN JsonFile(sorted(Ids)) ELSE AbsentFile]}

\* run_kitsu up to the loop: load_simple_jsonl_map, load_missing_cache.
InitKitsu ==
    /\ \E f \in KitsuFiles :
          /\ other_files = [OtherFixture EXCEPT !["kitsu"] = f]
          /\ files0 = f
    /\ existing_map \in {{}, Ids \ {MaxId}}
    /\ cache_file \in {AbsentFile, JsonFile(<<start_id + 1>>)}
    /\ missing_mal_ids = load_missing_cache(cache_file)
    /\ cache0 = cache_file
    /\ chain = NoChain
    /\ langs_status = [i \in Ids |-> 0]
    /\ looked_up = {}
    /\ va_log = NoLookups
    /\ json_data = [l \in Langs |-> {}]
    /\ checked_ok_ids = {}
    /\ idx = 0
    /\ verdict = [i \in Ids |-> "unchecked"]
    /\ fin_log = <<>>
    /\ flushed = 0
    /\ pc = "kitsu_loop"
    /\ mal_files = MalFixture
    /\ largest_known_mal_id = 0
    /\ consecutive_404 = 0
    /\ last_mal_404 = FALSE
    /\ va_cache = [p \in Persons |-> Uncached]
    /\ manual_files = ManualFixture
    /\ outputs = NoOutputs
    /\ prev_outputs = NoOutputs
    /\ HarnessUnused
    /\ FanoutUnused
    /\ AnisearchUnused

NextKitsu == KitsuSkipCached \/ KitsuProcess \/ KitsuRaises \/ KitsuInterrupt

SpecKitsu == InitKitsu /\ [][NextKitsu]_vars

\* Merge inputs of which the English MAL fact file, the English manual file,
\* or both, are not valid JSON.
MalformedInputs ==
    {in \in {[mal |-> [l \in Langs |-> IF l = "english" THEN m ELSE AbsentFile],
              others |-> [p \in OtherProviders |->
                             [l \in Langs |->
                                 IF l = "english" /\ p = "anilist" THEN JsonFile(<<1, 2>>)
                                 ELSE AbsentFile]],
              manual |-> [l \in Langs |-> IF l = "english" THEN u ELSE AbsentManual]] :
                m \in {JsonFile(<<1>>), CorruptFile},
                u \in {ManualFile(<<2>>, <<1>>, <<>>), CorruptManual}} :
        in.mal["english"] = CorruptFile \/ in.manual["english"] = CorruptManual}

\* A MAL scan or a merge that starts on persisted state of which some file is
\* not valid JSON.
InitMalformed ==
    \/ /\ Init
       /\ cache_file = CorruptFile \/ \E l \in Langs : mal_files[l] = CorruptFile
    \/ /\ \E in \in MalformedInputs : HasInputs(in)
       /\ MergeStart

NextMalformed == Next \/ NextMerge

SpecMalformed == InitMalformed /\ [][NextMalformed]_vars

\* Either scan: --api mal or --api kitsu.
InitScans == Init \/ InitKitsu

NextScans == Next \/ NextKitsu

SpecScans == InitScans /\ [][NextScans]_vars

\* ------------------------------------------------- crunchyroll_scraper.py
\* The most content ids phase 1 lists.
MaxShows == 4

\* asyncio.Semaphore(15), scaled down.
SemaphoreLimit == 2

Shows == 1 .. MaxShows

\* What the detail endpoint does for one show: 200 with a MAL id in the first
\* season, 200 without one, another status, or session.get raising.
DetailResponses == {"ok", "no_mal_id", "not_200", "exception"}

None == [is_none |-> TRUE, mal_id |-> 0]

\* fetch_details_concurrently from the response on: the entry of the show, or
\* None for a non-200 status and for an exception.  A show's MAL id is modelled
\* by its content id, 0 standing for no MAL id.
fetch_details(content_id, resp) ==
    CASE resp = "ok" -> [is_none |-> FALSE, mal_id |-> content_id]
      [] resp = "no_mal_id" -> [is_none |-> FALSE, mal_id |-> 0]
      [] OTHER -> None

\* valid_results = [r for r in results if r and r["mal_id"]]
valid_results_until_failure(rs) ==
    LET failed == {i \in 1 .. Len(rs) : rs[i].is_none}
        last == IF failed = {} THEN Len(rs)
                ELSE (CHOOSE i \in failed : \A j \in failed : i <= j) - 1
    IN SelectSeq(SubSeq(rs, 1, last), LAMBDA r : r.mal_id # 0)

valid_results(rs) == SelectSeq(rs, LAMBDA r : ~r.is_none /\ r.mal_id # 0)

\* Semaphore.acquire returns at once while the value is positive.
acquire_unlimited(value) == TRUE

acquire(value) == value > 0

in_flight == {i \in 1 .. Len(tasks) : tasks[i] = "fetching"}

FanoutFrame ==
    UNCHANGED <<scanVars, mergeVars, harnessVars, callVars, kitsuVars, anisearchVars>>

\* "async with semaphore" entered: the task takes a permit and awaits
\* session.get.  Waiting tasks are served in the order they were created.
Acquire(i) ==
    /\ ~crunchyroll_data.written
    /\ tasks[i] = "waiting"
    /\ \A j \in 1 .. i - 1 : tasks[j] # "waiting"
    /\ acquire(semaphore)
    /\ semaphore' = semaphore - 1
    /\ tasks' = [tasks EXCEPT ![i] = "fetching"]
    /\ UNCHANGED <<all_shows, results, crunchyroll_data, detail_responses>>
    /\ FanoutFrame

\* session.get completed or raised: the task returns its entry or None and
\* leaves the "async with" block, which releases the permit.
Complete(i) ==
    /\ tasks[i] = "fetching"
    /\ \E resp \in DetailResponses :
          /\ results' = [results EXCEPT ![i] = fetch_details(all_shows[i], resp)]
          /\ detail_responses' = [detail_responses EXCEPT ![i] = resp]
    /\ tasks' = [tasks EXCEPT ![i] = "returned"]
    /\ semaphore' = semaphore + 1
    /\ UNCHANGED <<all_shows, crunchyroll_data>>
    /\ FanoutFrame

\* asyncio.gather returned: main filters the results and writes the file.
WriteResults ==
    /\ ~crunchyroll_data.written
    /\ \A i \in 1 .. Len(tasks) : tasks[i] = "returned"
    /\ crunchyroll_data' = [written |-> TRUE, entries |-> valid_results(results)]
    /\ UNCHANGED <<all_shows, tasks, semaphore, results, detail_responses>>
    /\ FanoutFrame

\* main after phase 1: the semaphore and one task per listed show.
InitFanout ==
    /\ \E n \in 0 .. MaxShows : all_shows = [i \in 1 .. n |-> i]
    /\ tasks = [i \in 1 .. Len(all_shows) |-> "waiting"]
    /\ semaphore = SemaphoreLimit
    /\ results = [i \in 1 .. Len(all_shows) |-> None]
    /\ crunchyroll_data = NotWritten
    /\ detail_responses = [i \in 1 .. Len(all_shows) |-> "none"]
    /\ pc = "fanout"
    /\ mal_files = [l \in Langs |-> AbsentFile]
    /\ cache_file = AbsentFile
    /\ files0 = mal_files
    /\ missing_mal_ids = {}
    /\ largest_known_mal_id = 0
    /\ json_data = [l \in Langs |-> {}]
    /\ checked_ok_ids = {}
    /\ consecutive_404 = 0
    /\ idx = 0
    /\ last_mal_404 = FALSE
    /\ va_cache = [p \in Persons |-> Uncached]
    /\ verdict = [i \in Ids |-> "unchecked"]
    /\ fin_log = <<>>
    /\ flushed = 0
    /\ other_files = [p \in OtherProviders |-> [l \in Langs |-> AbsentFile]]
    /\ manual_files = [l \in Langs |-> AbsentManual]
    /\ outputs = NoOutputs
    /\ prev_outputs = NoOutputs
    /\ HarnessUnused
    /\ CallsUnused
    /\ KitsuUnused
    /\ AnisearchUnused

NextFanout ==
    \/ \E i \in 1 .. Len(tasks) : Acquire(i) \/ Complete(i)
    \/ WriteResults

SpecFanout == InitFanout /\ [][NextFanout]_vars

\* ------------------------------------------------------------ run_anisearch
CorruptSource == [kind |-> "corrupt", data |-> <<>>]
JsonSource(data) == [kind |-> "json", data |-> data]

\* A MAL id the source object has no key for.
NoRecord == [listed |-> FALSE, anisearch_id |-> 0, dubbed |-> <<>>]

\* The records of the source: "anisearch-id" (0: missing or not a number) and
\* the "dubbed" list of language codes.
SourceRecords ==
    {[listed |-> TRUE, anisearch_id |-> a, dubbed |-> c] :
        a \in {0, 7}, c \in {<<>>, <<"en">>, <<"JA", "">>, <<"en", "JA">>}}

Sources ==
    {AbsentSource, CorruptSource}
        \cup {JsonSource(d) : d \in [Ids -> SourceRecords \cup {NoRecord}]}

\* ann_lang_to_key: ISO codes, upper-cased, to language keys; anything else
\* goes through sanitize_lang.
ann_lang_to_key(raw) ==
    CASE raw = "" -> ""
      [] raw \in {"en", "EN"} -> "english"
      [] raw \in {"ja", "JA"} -> "japanese"
      [] OTHER -> sanitize_lang(raw)

\* load_anisearch_source: (per_lang, mapping); a missing or unparsable file
\* gives ({}, {}).  per_lang[l] = {} stands for a key that does not exist.
load_anisearch_source(src) ==
    IF src.kind # "json"
    THEN [per_lang |-> [l \in Langs |-> {}], mapping |-> <<>>]
    ELSE [per_lang |->
             [l \in Langs |->
                 {i \in DOMAIN src.data :
                     /\ src.data[i].listed
                     /\ \E k \in 1 .. Len(src.data[i].dubbed) :
                           sanitize_lang(ann_lang_to_key(src.data[i].dubbed[k])) = l}],
          mapping |->
             [i \in {j \in DOMAIN src.data :
                        src.data[j].listed /\ src.data[j].anisearch_id # 0} |->
                 src.data[i].anisearch_id]]

\* write_dubbed_files_overwrite: files of languages not in per_lang are
\* removed, the others are written from per_lang alone.
write_dubbed_files_merged(files, per_lang) ==
    [l \in Langs |->
        IF per_lang[l] # {}
        THEN JsonFile(sorted(existing_ids(files[l]) \cup per_lang[l]))
        ELSE files[l]]

write_dubbed_files_overwrite(files, per_lang) ==
    [l \in Langs |-> IF per_lang[l] # {} THEN JsonFile(sorted(per_lang[l])) ELSE AbsentFile]

\* run_anisearch(source_file)
RunAnisearch ==
    /\ pc = "anisearch_start"
    /\ LET loaded == load_anisearch_source(anisearch_source)
           nothing == (\A l \in Langs : loaded.per_lang[l] = {}) /\ loaded.mapping = <<>>
       IN IF nothing
          THEN UNCHANGED <<other_files, anisearch_mapping>>
          ELSE /\ other_files' =
                     write_provider(other_files, "anisearch",
                                    write_dubbed_files_overwrite(other_files["anisearch"],
                                                                 loaded.per_lang))
               /\ anisearch_mapping' = loaded.mapping
    /\ pc' = "anisearch_done"
    /\ UNCHANGED <<mal_files, cache_file, json_data, checked_ok_ids, missing_mal_ids,
                   largest_known_mal_id, consecutive_404, idx, last_mal_404, va_cache,
                   files0, verdict, fin_log, flushed, manual_files, outputs,
                   prev_outputs, anisearch_source>>
    /\ UNCHANGED <<harnessVars, callVars, kitsuVars, fanoutVars>>

\* The aniSearch fact files an earlier run left.
AnisearchFiles ==
    {[l \in Langs |-> AbsentFile],
     [l \in Langs |-> IF l = "english" THEN JsonFile(sorted(Ids)) ELSE AbsentFile],
     [l \in Langs |-> IF l = "english" THEN JsonFile(<<start_id>>) ELSE CorruptFile]}

\* The aniSearch mapping file an earlier run left.
MappingFixture == [i \in {start_id} |-> 9]

InitAnisearch ==
    /\ anisearch_source \in Sources
    /\ anisearch_mapping = MappingFixture
    /\ \E f \in AnisearchFiles :
          /\ other_files = [OtherFixture EXCEPT !["anisearch"] = f]
          /\ files0 = f
    /\ mal_files = MalFixture
    /\ manual_files = ManualFixture
    /\ pc = "anisearch_start"
    /\ cache_file = AbsentFile
    /\ missing_mal_ids = {}
    /\ largest_known_mal_id = 0
    /\ json_data = [l \in Langs |-> {}]
    /\ checked_ok_ids = {}
    /\ consecutive_404 = 0
    /\ idx = 0
    /\ last_mal_404 = FALSE
    /\ va_cache = [p \in Persons |-> Uncached]
    /\ verdict = [i \in Ids |-> "unchecked"]
    /\ fin_log = <<>>
    /\ flushed = 0
    /\ outputs = NoOutputs
    /\ prev_outputs = NoOutputs
    /\ HarnessUnused
    /\ CallsUnused
    /\ KitsuUnused
    /\ FanoutUnused

NextAnisearch == RunAnisearch

SpecAnisearch == InitAnisearch /\ [][NextAnisearch]_vars

\* ================================================================= claims
\* Position of an id in the scanned range (the value of idx once it is handled).
IndexOf(x) == x - start_id + 1

\* C1: for every language and every call of finalize_jsons, the set written is
\* (old - ((old & CheckedSet) - found)) | found, old being the set read from
\* the file before the call: an id of old is dropped only if it is in
\* CheckedSet and was not found again, every id outside CheckedSet is kept,
\* every found id is written, and the file holds exactly the last call's result.
C1_RemovalRule ==
    /\ \A k \in 1 .. Len(fin_log) : \A l \in Langs :
          LET c == fin_log[k]
              old == existing_ids(c.old[l])
              new == existing_ids(c.new[l])
              found == c.found[l]
          IN /\ new = (old \ ((old \cap c.checked) \ found)) \cup found
             /\ \A x \in old \ new : x \in c.checked /\ x \notin found
             /\ \A x \in old \ c.checked : x \in new
             /\ \A x \in found : x \in new
    /\ Len(fin_log) = 2 => fin_log[2].old = fin_log[1].new
    /\ Len(fin_log) > 0 => mal_files = fin_log[Len(fin_log)].new

\* A finalize call that drops a checked id, keeps an unchecked one and adds a
\* found one.
C1_Witness ==
    \E k \in 1 .. Len(fin_log) : \E l \in Langs :
        LET c == fin_log[k]
            old == existing_ids(c.old[l])
            new == existing_ids(c.new[l])
        IN /\ old \ new # {}
           /\ (old \cap new) \ c.checked # {}
           /\ c.found[l] # {}

\* C2: safe-removal negative.  An id X that was in the fact set of language L
\* before the run and whose verdict is TransientlyFailed is in no CheckedSet
\* handed to finalize_jsons and is still in L's file after every finalize.
C2_SafeRemovalNegative ==
    \A x \in Ids : \A l \in Langs :
        (x \in existing_ids(files0[l]) /\ verdict[x] = "transient")
            => /\ x \notin checked_ok_ids
               /\ x \in existing_ids(mal_files[l])
               /\ \A k \in 1 .. Len(fin_log) :
                     /\ x \notin fin_log[k].checked
                     /\ x \in existing_ids(fin_log[k].new[l])

\* The first id of the range was persisted, failed transiently, and the run
\* went on through a checkpoint (with other ids checked) to its final finalize.
C2_Witness ==
    /\ pc = "done"
    /\ idx = MaxId
    /\ verdict[start_id] = "transient"
    /\ start_id \in existing_ids(files0["english"])
    /\ checked_ok_ids # {}
    /\ start_id \in existing_ids(mal_files["english"])

\* C3: safe-removal positive.  An id X that was in the fact set of language L
\* before the run and whose verdict is VerifiedAbsent (primary lookup 404) is
\* absent from L's file once a finalize has run after the verdict.
C3_SafeRemovalPositive ==
    \A x \in Ids : \A l \in Langs :
        (x \in existing_ids(files0[l]) /\ verdict[x] = "absent"
             /\ (pc = "done" \/ flushed >= IndexOf(x)))
            => x \notin existing_ids(mal_files[l])

C3_Witness ==
    /\ pc = "done"
    /\ \E x \in Ids : \E l \in Langs :
          /\ x \in existing_ids(files0[l])
          /\ verdict[x] = "absent"
          /\ x \notin existing_ids(mal_files[l])

\* C4: a TransientFailure for id X leaves X's membership unchanged in every
\* language set: after the finalize, X is in L's file exactly if it was
\* before the run.
C4_TransientLeavesMembership ==
    pc = "done" =>
        \A x \in Ids : \A l \in Langs :
            verdict[x] = "transient"
                => (x \in existing_ids(mal_files[l]) <=> x \in existing_ids(files0[l]))

\* ------------------------------------------------- claims about the merge
Merged == pc \in {"merged", "remerged"}

\* The inputs of a language as the files hold them.
ManualIds(l, field) ==
    IF manual_files[l].kind = "json" THEN Range(manual_files[l][field]) ELSE {}

ProviderIds(p, l) == existing_ids(source_file(p, l, mal_files, other_files))

AllProviderIds(l) == UNION {ProviderIds(p, l) : p \in Providers}

\* SupportCount: the number of providers whose set contains the id.
SupportCount(id, l) == Cardinality({p \in Providers : id \in ProviderIds(p, l)})

MergedLangs == list_language_files(manual_files, mal_files, other_files)

TierIds(l, level) == Range(outputs[l].confidence[level].dubbed)

InScenarioA == HasInputs(ScenarioA)

\* C5: for every language and tier threshold t, the tier output written by the
\* merge is (manual.dubbed | {id : SupportCount[id] >= t}) - manual.not_dubbed
\* - manual.partial, as an ascending array; on Scenario A tier normal is
\* [200, 400] and tier low is [100, 200, 400].
C5_TierFormula ==
    Merged =>
        /\ \A l \in MergedLangs : \A level \in Levels :
              LET f == outputs[l].confidence[level]
              IN /\ f.kind = "json"
                 /\ IsAscending(f.dubbed)
                 /\ Range(f.dubbed) =
                        ((ManualIds(l, "dubbed")
                            \cup {id \in AllProviderIds(l) :
                                    SupportCount(id, l) >= CONFIDENCE_LEVELS[level]})
                          \ ManualIds(l, "not_dubbed")) \ ManualIds(l, "partial")
        /\ InScenarioA =>
              /\ outputs["english"].confidence["normal"].dubbed = <<200, 400>>
              /\ outputs["english"].confidence["low"].dubbed = <<100, 200, 400>>

\* Merged inputs where support decides: an id without manual entry is in tier
\* normal, another is in no tier for lack of support.
C5_Witness ==
    /\ Merged
    /\ \E a, b \in AllProviderIds("english") :
          /\ a \notin ManualIds("english", "dubbed")
          /\ a \in TierIds("english", "normal")
          /\ a \notin TierIds("english", "high")
          /\ b \in TierIds("english", "low")
          /\ b \notin TierIds("english", "normal")

\* C6: tier monotonicity: low >= normal >= high >= very-high as sets.
C6_TierMonotone ==
    Merged =>
        \A l \in Langs :
            /\ TierIds(l, "normal") \subseteq TierIds(l, "low")
            /\ TierIds(l, "high") \subseteq TierIds(l, "normal")
            /\ TierIds(l, "very-high") \subseteq TierIds(l, "high")

C6_Witness ==
    /\ Merged
    /\ \E l \in Langs :
          /\ TierIds(l, "very-high") # {}
          /\ TierIds(l, "very-high") # TierIds(l, "low")

\* C7: an id in manual not_dubbed is in the dubbed output of no tier, even if
\* it is in manual dubbed too and whatever its support count.
C7_NotDubbedDominates ==
    Merged =>
        \A l \in Langs : \A level \in Levels :
            TierIds(l, level) \cap ManualIds(l, "not_dubbed") = {}

C7_Witness ==
    /\ Merged
    /\ \E id \in ManualIds("english", "not_dubbed") \cap ManualIds("english", "dubbed") :
          /\ SupportCount(id, "english") >= CONFIDENCE_LEVELS["very-high"]
          /\ id \notin TierIds("english", "low")
    /\ TierIds("english", "low") # {}

\* C8: an id in manual partial is in the dubbed output of no tier, whatever its
\* support count and whether or not it is also in manual dubbed or not_dubbed.
C8_PartialExcluded ==
    Merged =>
        \A l \in Langs : \A level \in Levels :
            TierIds(l, level) \cap ManualIds(l, "partial") = {}

C8_Witness ==
    /\ Merged
    /\ \E id \in ManualIds("english", "partial") \cap ManualIds("english", "dubbed") :
          /\ id \notin ManualIds("english", "not_dubbed")
          /\ SupportCount(id, "english") >= CONFIDENCE_LEVELS["very-high"]
          /\ id \notin TierIds("english", "low")
    /\ TierIds("english", "low") # {}

\* C9: idempotence: a merge invocation on inputs unchanged since the previous
\* invocation leaves every counts document and every tier document, with its
\* ascending dubbed array, as the previous invocation wrote it.
C9_MergeIdempotent ==
    pc = "remerged" =>
        /\ outputs = prev_outputs
        /\ \A l \in Langs : \A level \in Levels :
              IsAscending(outputs[l].confidence[level].dubbed)

C9_Witness ==
    /\ pc = "remerged"
    /\ outputs["english"].confidence["low"].dubbed # <<>>
    /\ Len(outputs["japanese"].confidence["low"].dubbed) >= 2
    /\ outputs["english"].counts.partial # <<>>
    /\ DOMAIN outputs["english"].counts.counts # {}

CountOf(doc, id) == IF id \in DOMAIN doc.counts THEN doc.counts[id] ELSE 0

Returned == pc = "returned"

\* A response that is a failure of the attempt: a non-success status other
\* than 404 and 429 (500 also stands for a transport error), or a success
\* whose payload is structurally invalid.
IsFailure(r) == r.status \notin {200, 404, 429} \/ (r.status = 200 /\ ~r.valid)

\* The sleeps of the last call, in order.
SleepSeconds == [i \in 1 .. Len(last_call.sleeps) |-> last_call.sleeps[i].seconds]

\* C12: a not-found response ends the harness call at once, at whichever
\* attempt it arrives: the call returns None (PermanentMiss), the not-found
\* response is the last request it issued, and nothing is slept after it.
C12_NotFoundReturnsAtOnce ==
    Returned =>
        \A i \in 1 .. Len(last_call.responses) :
            last_call.responses[i].status = 404 =>
                /\ last_call.outcome = "none"
                /\ last_call.requests = i
                /\ \A k \in 1 .. Len(last_call.sleeps) : last_call.sleeps[k].after < i

C12_Witness ==
    /\ Returned
    /\ system = "mal"
    /\ last_call.requests = 3
    /\ last_call.responses[3].status = 404
    /\ Len(last_call.sleeps) = 2
    /\ last_call.outcome = "none"

\* C13: a harness call whose every attempt fails issues exactly CALL_RETRIES
\* = 4 requests, sleeps 10, 60 and 120 seconds after the first, second and
\* third, sleeps nothing after the fourth, and raises.  For MAL and Jikan
\* every response that is a failure takes the failing branch.
C13_AllAttemptsFail ==
    Returned =>
        LET every_response_fails ==
                \A i \in 1 .. Len(last_call.responses) : IsFailure(last_call.responses[i])
            every_attempt_failed ==
                \/ last_call.failures = last_call.requests
                \/ system \in {"mal", "jikan"} /\ every_response_fails
        IN every_attempt_failed =>
              /\ last_call.requests = CALL_RETRIES
              /\ last_call.outcome = "raise"
              /\ SleepSeconds = RETRY_DELAYS
              /\ \A k \in 1 .. Len(last_call.sleeps) : last_call.sleeps[k].after = k

C13_Witness ==
    /\ Returned
    /\ system = "jikan"
    /\ last_call.failures = CALL_RETRIES
    /\ ~last_call.responses[CALL_RETRIES].valid
    /\ last_call.responses[1].status = 500
    /\ last_call.outcome = "raise"
    /\ SleepSeconds = <<10, 60, 120>>

\* C14 as stated: a rate-limited response is always retried and never
\* surfaced as an error: a call that got only rate-limited responses,
\* followed or not yet followed by a success, does not end in an error, and
\* ends with Success when the success arrives.
C14_RateLimitNeverSurfaces ==
    Returned =>
        ((\A i \in 1 .. Len(last_call.responses) :
              \/ last_call.responses[i].status = 429
              \/ last_call.responses[i].status = 200 /\ last_call.responses[i].valid)
          => last_call.outcome = "data")

\* C15 as stated: rate-limited responses do not consume the retry budget: a
\* call that was rate limited at least once and ends with a
\* TransientFailure made CALL_RETRIES failing attempts.
C15_RateLimitKeepsBudget ==
    Returned =>
        (last_call.rate_limited >= 1 /\ last_call.outcome = "raise"
            => last_call.failures = CALL_RETRIES)

\* C16 as stated: on a rate-limited response the MAL, Jikan and Kitsu
\* harnesses sleep exactly the server-supplied delay when there is one, and
\* RETRY_DELAYS[min(attempt, 2)] only when there is none.
C16_ServerDelayHonoured ==
    Returned /\ system \in {"mal", "jikan", "kitsu"} =>
        \A i \in 1 .. Len(last_call.responses) :
            LET r == last_call.responses[i]
            IN r.status = 429 =>
                \E k \in 1 .. Len(last_call.sleeps) :
                    /\ last_call.sleeps[k].after = i
                    /\ last_call.sleeps[k].seconds =
                          IF r.retry_after # <<>> THEN r.retry_after[1]
                          ELSE fallback_delay(i - 1)

\* C17 as stated: any two consecutive outbound requests to a system are at
\* least its minimum interval apart, across calls and inside one call.
C17_Throttle ==
    Returned =>
        \A i \in 1 .. Len(last_call.gaps) : last_call.gaps[i] >= MIN_INTERVAL(system)

\* C18: the voice-actor memo holds only Success and PermanentMiss results.
\* In every step and for every person: the memo never holds a failed
\* lookup; a memoized person is answered from the memo, with no harness
\* call, and its entry stays; a person that is not memoized is looked up by
\* a harness call; a call that ended in a TransientFailure leaves the
\* person unmemoized, and one that ended in Success or PermanentMiss
\* memoizes that result.
C18_MemoNeverStoresTransient ==
    [][\A p \in Persons :
          /\ va_cache'[p].kind \in {"uncached", "data", "miss"}
          /\ va_cache[p] # Uncached =>
                va_log'[p] \in {"none", "memo"} /\ va_cache'[p] = va_cache[p]
          /\ va_cache[p] = Uncached => va_log'[p] # "memo"
          /\ va_log'[p] = "transient" => va_cache'[p] = Uncached
          /\ va_log'[p] \in {"data", "miss"} => va_cache'[p].kind = va_log'[p]]_vars

\* The lookup of person 1 failed transiently at the first id and is issued
\* again at the second, where person 2 is answered from the memo.
C18_Witness ==
    /\ idx = 2
    /\ verdict[start_id] = "transient"
    /\ va_log[1] = "data"
    /\ va_log[2] = "memo"
    /\ va_cache[1].kind = "data"
    /\ start_id + 1 \in looked_up

\* C20: in a MAL scan, an id that is in the missing-id cache as loaded and
\* at or below the high-water mark has no harness call issued for it.
C20_CacheSkip ==
    \A x \in Ids :
        x \in missing0 /\ x <= largest_known_mal_id => x \notin looked_up

C20_Witness ==
    /\ pc = "done"
    /\ idx = MaxId - start_id + 1
    /\ \E x \in Ids :
          /\ x \in missing0
          /\ x <= largest_known_mal_id
          /\ verdict[x] = "skipped"
          /\ x \notin looked_up
    /\ looked_up # {}

\* C19 as stated: only a not-found status yields PermanentMiss.  An id whose
\* lookup got another non-success status (401, 403, 500) is not added to the
\* CheckedSet and is not removed from a fact file it was in.
C19_OnlyNotFoundIsPermanent ==
    \A x \in Ids :
        langs_status[x] \notin {0, 200, 404} =>
            /\ x \notin checked_ok_ids
            /\ \A l \in Langs :
                  x \in existing_ids(files0[l]) => x \in existing_ids(other_files["kitsu"][l])

\* C21 as stated: in a Kitsu scan as in a MAL scan, an id above the high-water
\* mark (the largest id in the MAL Japanese fact file) is never skipped on the
\* strength of the missing-id cache.
C21_BeyondMarkRechecked ==
    \A x \in Ids :
        x > get_largest_known_mal_id(mal_files) => verdict[x] # "skipped"

\* C24 as stated: a step that classifies its id transiently failed leaves the
\* consecutive-miss counter as it was.
C24_TransientLeavesCounter ==
    [][(pc = "loop" /\ verdict'[next_mal_id] = "transient")
          => consecutive_404' = consecutive_404]_vars

\* C27 as stated: in a Kitsu scan, whenever the number of candidates handled
\* is a positive multiple of FINALIZE_EVERY_N, finalize_jsons has run at that
\* count.
C27_CheckpointEveryK ==
    pc = "kitsu_loop" /\ idx > 0 /\ idx % FINALIZE_EVERY_N = 0 => flushed = idx

\* C22: in a MAL scan, once MAX_CONSECUTIVE_404 consecutive candidate ids
\* ending at x are verified absent, the scan has halted at x: no later id was
\* handled or looked up, and the final finalize_jsons and save_missing_cache
\* ran over what was gathered up to x.
C22_EarlyStop ==
    \A x \in Ids :
        (/\ x - MAX_CONSECUTIVE_404 + 1 >= start_id
         /\ \A y \in (x - MAX_CONSECUTIVE_404 + 1) .. x : verdict[y] = "absent")
        => /\ pc = "done"
           /\ idx = IndexOf(x)
           /\ \A z \in Ids : z > x => verdict[z] = "unchecked" /\ z \notin looked_up
           /\ flushed = idx
           /\ fin_log # <<>>
           /\ fin_log[Len(fin_log)].found = json_data
           /\ fin_log[Len(fin_log)].checked = checked_ok_ids
           /\ mal_files = fin_log[Len(fin_log)].new
           /\ cache_file = save_missing_cache(missing_mal_ids)

\* The scan stopped before the end of the range.
C22_Witness ==
    /\ pc = "done"
    /\ \E x \in Ids :
          /\ x < MaxId
          /\ idx = IndexOf(x)
          /\ x - MAX_CONSECUTIVE_404 + 1 >= start_id
          /\ \A y \in (x - MAX_CONSECUTIVE_404 + 1) .. x : verdict[y] = "absent"
          /\ \A z \in Ids : z > x => verdict[z] = "unchecked" /\ z \notin looked_up
    /\ consecutive_404 = MAX_CONSECUTIVE_404

VerifiedAbsent == {x \in Ids : verdict[x] = "absent"}

\* C25: in a MAL scan the in-memory missing-id cache is at every moment the
\* cache as loaded plus the ids verified absent so far (so it holds every such
\* id and loses none), and the cache file the finished run leaves is that set
\* in ascending order.
C25_MissingCacheGrows ==
    /\ missing_mal_ids = missing0 \cup VerifiedAbsent
    /\ pc = "done" =>
          /\ cache_file = JsonFile(sorted(missing0 \cup VerifiedAbsent))
          /\ IsAscending(cache_file.dubbed)

\* A run that loaded a non-empty cache and verified a further id absent.
C25_Witness ==
    /\ pc = "done"
    /\ missing0 # {}
    /\ VerifiedAbsent \ missing0 # {}
    /\ missing0 \ VerifiedAbsent # {}
    /\ cache_file = JsonFile(sorted(missing0 \cup VerifiedAbsent))

\* The primary lookup of the id handled last returned a payload.
PrimarySucceeded == chain.id # 0 /\ chain.primary \in {"chars", "nochars"}

\* A lookup of the chain ended in a TransientFailure: retries exhausted or a
\* malformed payload.
ChainTransient == chain.va = "raise" \/ \E p \in Persons : va_log[p] = "transient"

VerifiedPresent(x) == verdict[x] = "present" /\ x \in checked_ok_ids

\* C23 as stated: an id whose primary lookup succeeded is verified present and
\* in checked_ok_ids exactly when no lookup of its chain ended in a
\* TransientFailure; a not-found answer of an enrichment lookup does not make
\* it transiently failed.
C23_PresentUnlessTransient ==
    PrimarySucceeded =>
        /\ VerifiedPresent(chain.id) <=> ~ChainTransient
        /\ verdict[chain.id] = "transient" <=> ChainTransient

\* C23 as the code has it: the id is also transiently failed, and kept out of
\* checked_ok_ids, when get_voice_actors returned nothing (not found); with a
\* voice-actor list and every roles lookup ending in data or not-found it is
\* verified present, whether or not a language was found.
C23_PresentUnlessTransientOrNoVoices ==
    /\ PrimarySucceeded =>
          /\ VerifiedPresent(chain.id) <=> ~(ChainTransient \/ chain.va = "miss")
          /\ (verdict[chain.id] = "transient" /\ chain.id \notin checked_ok_ids)
                <=> (ChainTransient \/ chain.va = "miss")
    /\ chain.primary = "raise" =>
          verdict[chain.id] = "transient" /\ chain.id \notin checked_ok_ids

\* An id with characters and voice actors whose roles lookups found it in no
\* language, one of them answered not-found: verified present all the same.
C23_Witness ==
    /\ chain.primary = "chars"
    /\ chain.va = "list"
    /\ \E p \in Persons : va_log[p] = "miss"
    /\ \A p \in Persons : va_log[p] # "transient"
    /\ \A l \in Langs : chain.id \notin json_data[l]
    /\ VerifiedPresent(chain.id)

LastFinalize == fin_log[Len(fin_log)]

\* C26: a scan that has ended, by running out of ids, by the early stop, by
\* an interrupt or by an exception, ran finalize_jsons last over the
\* observations and the checked ids it holds at that point (the MAL scan also
\* save_missing_cache over its missing ids), and ran it once: a second call in
\* the ending step is the checkpoint of that iteration.
C26_EveryRunEndsWithFlush ==
    pc \in {"done", "kitsu_done"} =>
        /\ fin_log # <<>>
        /\ LastFinalize.found = json_data
        /\ LastFinalize.checked = checked_ok_ids
        /\ flushed = idx
        /\ Len(fin_log) <= 2
        /\ Len(fin_log) = 2 => idx > 0 /\ idx % FINALIZE_EVERY_N = 0
        /\ pc = "done" =>
              /\ mal_files = LastFinalize.new
              /\ cache_file = save_missing_cache(missing_mal_ids)
        /\ pc = "kitsu_done" => other_files["kitsu"] = LastFinalize.new

\* A MAL scan ended by an exception between two checkpoints, after it had
\* found a dub: the dub is on disk.
C26_Witness ==
    /\ pc = "done"
    /\ chain.primary = "raise"
    /\ idx < MaxId - start_id + 1
    /\ idx % FINALIZE_EVERY_N # 0
    /\ \E l \in Langs : json_data[l] # {} /\ json_data[l] \subseteq existing_ids(mal_files[l])
    /\ cache_file = save_missing_cache(missing_mal_ids)
    /\ LastFinalize.found = json_data

\* C29: at every moment of a scan the manual files and the fact files of the
\* other providers are what they were when the scan started: a MAL scan writes
\* under automatic_mal only, a Kitsu scan under automatic_kitsu only.
C29_ForeignFilesUntouched ==
    /\ manual_files = ManualFixture
    /\ pc \in {"loop", "done"} => other_files = OtherFixture
    /\ pc \in {"kitsu_loop", "kitsu_done"} =>
          /\ mal_files = MalFixture
          /\ \A p \in OtherProviders \ {"kitsu"} : other_files[p] = OtherFixture[p]

\* A Kitsu scan that rewrote a Kitsu fact file next to the files of MAL, of
\* AniList and of the maintainers.
C29_Witness ==
    /\ pc = "kitsu_done"
    /\ other_files["kitsu"] # files0
    /\ \E l \in Langs : other_files["anilist"][l] # AbsentFile
    /\ \A p \in OtherProviders \ {"kitsu"} : other_files[p] = OtherFixture[p]
    /\ mal_files = MalFixture
    /\ manual_files = ManualFixture

\* A file that does not parse, read as a document without ids.
AsEmptyFile(file) == IF file.kind = "corrupt" THEN JsonFile(<<>>) ELSE file

AsEmptyManual(file) == IF file.kind = "corrupt" THEN ManualFile(<<>>, <<>>, <<>>) ELSE file

\* C28: content that is not valid JSON is read as the empty set and the run
\* goes on to write its outputs.  A fact file that did not parse is rewritten
\* by finalize_jsons with the ids found in the run; a cache file that did not
\* parse gives an empty cache, and the finished scan writes the ids it
\* verified absent; a merge over a manual or fact file that did not parse
\* writes the documents it would write had that file held no ids.
C28_MalformedStateRecovered ==
    /\ \A i \in 1 .. Len(fin_log) : \A l \in Langs :
          fin_log[i].old[l] = CorruptFile =>
              fin_log[i].new[l] = JsonFile(sorted(fin_log[i].found[l]))
    /\ pc = "done" =>
          \A l \in Langs :
              files0[l] = CorruptFile => mal_files[l] = JsonFile(sorted(json_data[l]))
    /\ cache0 = CorruptFile =>
          /\ missing_mal_ids = VerifiedAbsent
          /\ pc = "done" => cache_file = JsonFile(sorted(VerifiedAbsent))
    /\ pc \in {"merged", "remerged"} =>
          /\ outputs =
                merge_main([l \in Langs |-> AsEmptyManual(manual_files[l])],
                           [l \in Langs |-> AsEmptyFile(mal_files[l])],
                           [p \in OtherProviders |->
                               [l \in Langs |-> AsEmptyFile(other_files[p][l])]],
                           NoOutputs)
          /\ \A l \in Langs :
                (manual_files[l] = CorruptManual \/ mal_files[l] = CorruptFile) =>
                    /\ outputs[l].counts.kind = "json"
                    /\ \A level \in Levels : outputs[l].confidence[level].kind = "json"

\* A finished MAL scan that started on an unparsable English fact file and an
\* unparsable cache, found an English dub and verified an id absent.
C28_Witness ==
    /\ pc = "done"
    /\ files0["english"] = CorruptFile
    /\ cache0 = CorruptFile
    /\ json_data["english"] # {}
    /\ mal_files["english"] = JsonFile(sorted(json_data["english"]))
    /\ VerifiedAbsent # {}
    /\ cache_file = JsonFile(sorted(VerifiedAbsent))

\* C30: at no moment are more detail fetches in flight than the semaphore
\* has permits, whatever the number of shows and the order in which the
\* fetches complete; the permits taken and the permits left add up to the limit.
C30_BoundedInFlight ==
    /\ Cardinality(in_flight) <= SemaphoreLimit
    /\ semaphore + Cardinality(in_flight) = SemaphoreLimit
    /\ semaphore >= 0

\* All permits are taken while a later show waits and an earlier one has
\* returned, a fetch that started after another having completed before it.
C30_Witness ==
    /\ Cardinality(in_flight) = SemaphoreLimit
    /\ semaphore = 0
    /\ Len(all_shows) > SemaphoreLimit + 1
    /\ \E i \in 1 .. Len(tasks) : tasks[i] = "waiting"
    /\ \E i, j \in 1 .. Len(tasks) :
          i < j /\ tasks[i] = "fetching" /\ tasks[j] = "returned"

\* The shows whose detail fetch answered 200 with a MAL id, in list order.
Succeeded == SelectSeq([i \in 1 .. Len(all_shows) |-> i],
                       LAMBDA i : detail_responses[i] = "ok")

\* C31: a fetch that raised or got a non-200 status returns None and stops
\* nothing: the file is written once every task has returned, and holds, in
\* the order of the show list, exactly the entries of the shows whose fetch
\* answered 200 with a MAL id.
C31_FailureDoesNotAbortBatch ==
    /\ \A i \in 1 .. Len(tasks) :
          /\ detail_responses[i] \in {"not_200", "exception"} => results[i] = None
          /\ tasks[i] = "returned" <=> detail_responses[i] # "none"
    /\ crunchyroll_data.written =>
          /\ \A i \in 1 .. Len(tasks) : tasks[i] = "returned"
          /\ Len(crunchyroll_data.entries) = Len(Succeeded)
          /\ \A k \in 1 .. Len(Succeeded) :
                crunchyroll_data.entries[k] =
                    [is_none |-> FALSE, mal_id |-> all_shows[Succeeded[k]]]

\* The first show's fetch raised, a later one got a non-200 status, and shows
\* after each of them are in the file.
C31_Witness ==
    /\ crunchyroll_data.written
    /\ Len(all_shows) = MaxShows
    /\ detail_responses[1] = "exception"
    /\ detail_responses[3] = "not_200"
    /\ detail_responses[2] = "ok"
    /\ detail_responses[MaxShows] = "ok"
    /\ Len(crunchyroll_data.entries) = 2

\* C32 as stated: the step of a MAL scan that classifies an id transiently
\* failed, its primary lookup exhausting its retries included, leaves the scan
\* in its loop when ids of the range remain.
C32_ScanGoesOnAfterTransient ==
    (chain.id # 0 /\ chain.id < MaxId /\ verdict[chain.id] = "transient") => pc = "loop"

\* C33 as stated: an id the run verified present is not in the missing-id
\* cache file the finished run leaves.
C33_CacheHoldsOnlyAbsentIds ==
    pc = "done" =>
        \A x \in Ids : VerifiedPresent(x) => x \notin load_missing_cache(cache_file)

CacheSkipped == {x \in Ids : verdict[x] = "skipped"}

\* C34: an id of a MAL scan skipped on the strength of the missing-id cache is
\* not in checked_ok_ids, in no finalize_jsons call either, and stays in every
\* language file it was in at the start of the run, through every finalize.
C34_SkippedIdIsKept ==
    \A x \in CacheSkipped :
        /\ x \notin checked_ok_ids
        /\ \A i \in 1 .. Len(fin_log) :
              /\ x \notin fin_log[i].checked
              /\ \A l \in Langs :
                    x \in existing_ids(fin_log[i].old[l]) =>
                        x \in existing_ids(fin_log[i].new[l])
        /\ \A l \in Langs :
              x \in existing_ids(files0[l]) => x \in existing_ids(mal_files[l])

\* A finished scan that skipped an id listed in a language file and removed
\* another, checked, id from the same file.
C34_Witness ==
    /\ pc = "done"
    /\ \E l \in Langs :
          /\ \E x \in CacheSkipped :
                x \in existing_ids(files0[l]) /\ x \in existing_ids(mal_files[l])
          /\ \E y \in checked_ok_ids :
                y \in existing_ids(files0[l]) /\ y \notin existing_ids(mal_files[l])

\* C36: in a MAL scan, once MAX_CONSECUTIVE_404 consecutive candidate ids
\* ending at x are each skipped from the cache or verified absent, the scan has
\* halted at x; when all of them were skipped and they open the range, it has
\* halted without a single harness call.
C36_SkippedCountsAsMiss ==
    \A x \in Ids :
        (/\ x - MAX_CONSECUTIVE_404 + 1 >= start_id
         /\ \A y \in (x - MAX_CONSECUTIVE_404 + 1) .. x : verdict[y] \in {"absent", "skipped"})
        => /\ pc = "done"
           /\ idx = IndexOf(x)
           /\ consecutive_404 = MAX_CONSECUTIVE_404
           /\ \A z \in Ids : z > x => verdict[z] = "unchecked" /\ z \notin looked_up
           /\ looked_up = {y \in start_id .. x : verdict[y] \notin {"skipped", "unchecked"}}

\* A scan over a range whose first ids are all cached and below the mark:
\* stopped early, nothing looked up.
C36_Witness ==
    /\ pc = "done"
    /\ idx = MAX_CONSECUTIVE_404
    /\ idx < MaxId - start_id + 1
    /\ \A y \in start_id .. (start_id + idx - 1) : verdict[y] = "skipped"
    /\ consecutive_404 = MAX_CONSECUTIVE_404
    /\ looked_up = {}
    /\ fin_log # <<>>

\* C38: finalize_jsons run again over the files it has just written, with the
\* same found sets and the same checked ids, writes the same files; so the
\* final finalize of a scan interrupted right after a checkpoint, or following
\* the checkpoint of the last iteration, leaves every fact file as the
\* checkpoint wrote it.
C38_FinalizeIdempotent ==
    /\ \A i \in 1 .. Len(fin_log) :
          finalize_jsons(fin_log[i].new, fin_log[i].found, fin_log[i].checked)
              = fin_log[i].new
    /\ Len(fin_log) = 2 =>
          /\ fin_log[2].old = fin_log[1].new
          /\ fin_log[2].new = fin_log[1].new
    /\ (pc = "done" /\ chain = NoChain /\ idx > 0 /\ idx % FINALIZE_EVERY_N = 0) =>
          /\ LastFinalize.new = LastFinalize.old
          /\ mal_files = LastFinalize.old

\* A scan interrupted right after a checkpoint that had added an id to one
\* file and removed an id from another: the final finalize found the files
\* as the checkpoint left them and wrote them back unchanged.
C38_Witness ==
    /\ pc = "done"
    /\ chain = NoChain
    /\ idx = FINALIZE_EVERY_N
    /\ \E l \in Langs : existing_ids(mal_files[l]) \ existing_ids(files0[l]) # {}
    /\ \E l \in Langs : existing_ids(files0[l]) \ existing_ids(mal_files[l]) # {}
    /\ LastFinalize.old = mal_files
    /\ LastFinalize.new = mal_files
    /\ LastFinalize.checked # {}

\* C39: whatever the server goes on answering, a harness call has returned a
\* payload, returned None or raised by the time it has issued CALL_RETRIES = 4
\* requests, a server that answers every request with 429 included: the call
\* then raises after exactly CALL_RETRIES requests.
C39_CallEndsWithinBudget ==
    Returned =>
        /\ last_call.outcome \in {"data", "none", "raise"}
        /\ last_call.requests \in 1 .. CALL_RETRIES
        /\ last_call.outcome \in {"data", "none"} =>
              last_call.responses[last_call.requests].status \in {200, 404}
        /\ (\A i \in 1 .. CALL_RETRIES : last_call.responses[i].status = 429) =>
              last_call.outcome = "raise" /\ last_call.requests = CALL_RETRIES

\* A call answered 429 every time: four requests, then the raise; the server
\* had a fifth answer ready.
C39_Witness ==
    /\ Returned
    /\ Len(last_call.responses) > CALL_RETRIES
    /\ \A i \in 1 .. Len(last_call.responses) : last_call.responses[i].status = 429
    /\ last_call.requests = CALL_RETRIES
    /\ last_call.rate_limited = CALL_RETRIES
    /\ last_call.outcome = "raise"

\* The ids the source lists with a code of language l, and the source's
\* MAL id -> aniSearch id pairs.
SourceIds(l) ==
    {i \in Ids : /\ anisearch_source.kind = "json"
                 /\ anisearch_source.data[i].listed
                 /\ \E k \in 1 .. Len(anisearch_source.data[i].dubbed) :
                       ann_lang_to_key(anisearch_source.data[i].dubbed[k]) = l}

SourceMapped ==
    {i \in Ids : anisearch_source.kind = "json" /\ anisearch_source.data[i].anisearch_id # 0}

\* C35: after run_anisearch over a source that yields a language or a
\* mapping, the aniSearch file of each language holds exactly the ids the
\* source lists under it, whatever the file held before, and a language the
\* source does not list has no file; over a source that yields neither, the
\* files and the mapping file are as they were.  No other file is touched.
C35_AnisearchOverwrites ==
    pc = "anisearch_done" =>
        /\ IF (\E l \in Langs : SourceIds(l) # {}) \/ SourceMapped # {}
           THEN /\ \A l \in Langs :
                      other_files["anisearch"][l] =
                          IF SourceIds(l) # {} THEN JsonFile(sorted(SourceIds(l)))
                          ELSE AbsentFile
                /\ DOMAIN anisearch_mapping = SourceMapped
           ELSE /\ other_files["anisearch"] = files0
                /\ anisearch_mapping = MappingFixture
        /\ \A p \in OtherProviders \ {"anisearch"} : other_files[p] = OtherFixture[p]
        /\ mal_files = MalFixture
        /\ manual_files = ManualFixture

\* The English file listed every id; the source lists fewer ids under
\* English and some under Japanese, whose file did not parse: both files are
\* now what the source says.
C35_Witness ==
    /\ pc = "anisearch_done"
    /\ files0["english"] = JsonFile(<<start_id>>)
    /\ files0["japanese"] = CorruptFile
    /\ SourceIds("english") = {MaxId}
    /\ SourceIds("japanese") = {start_id, MaxId}
    /\ other_files["anisearch"]["english"] = JsonFile(<<MaxId>>)
    /\ other_files["anisearch"]["japanese"] = JsonFile(<<start_id, MaxId>>)

\* The tier set of the providers-only rule: counts over the automatic sources
\* alone, thresholded, then the manual lists applied as a post-filter.
providers_only_counts(lang) ==
    compute_counts(ProviderOrder,
                   load_language_sources(lang, manual_files, mal_files,
                                         other_files).auto_sources)

providers_only_tier(info, counts, level) ==
    {mid \in info.manual_dubbed \cup candidates(counts, CONFIDENCE_LEVELS[level]) :
        mid \notin info.manual_not_dubbed /\ mid \notin info.manual_partial}

\* C37: the tier outputs do not depend on the manual dubbed list being counted
\* as one more source: for every language and tier the dubbed set the merge
\* writes (counts with the manual source added and the not_dubbed ids deleted
\* before thresholding) is the set of the providers-only rule.
C37_ManualVoteIsNeutral ==
    Merged =>
        \A l \in MergedLangs :
            LET info == load_language_sources(l, manual_files, mal_files, other_files)
                counts == providers_only_counts(l)
            IN \A level \in Levels :
                  TierIds(l, level) = providers_only_tier(info, counts, level)

\* Merged inputs where the manual vote changes a count across a threshold: an
\* id in manual dubbed with one provider short of tier normal is counted 2 by
\* the merge, and an id in manual not_dubbed with provider support has no count.
C37_Witness ==
    /\ Merged
    /\ \E a \in ManualIds("english", "dubbed") :
          /\ SupportCount(a, "english") = CONFIDENCE_LEVELS["normal"] - 1
          /\ a \in DOMAIN outputs["english"].counts.counts
          /\ outputs["english"].counts.counts[a] = CONFIDENCE_LEVELS["normal"]
          /\ a \notin candidates(providers_only_counts("english"), CONFIDENCE_LEVELS["normal"])
          /\ a \in TierIds("english", "normal")
    /\ \E b \in ManualIds("english", "not_dubbed") :
          /\ SupportCount(b, "english") >= 1
          /\ b \notin DOMAIN outputs["english"].counts.counts

====
